---- MODULE Spec2Model ----
(***************************************************************************)
(* Authority nodes of sn_dbc_examples (spentbook_node.rs, mint_node.rs):   *)
(* peer registry and quorum gate, DKG coordination, the request server    *)
(* and the persisted spent log; and the wallet client (wallet.rs,          *)
(* wallet_node.rs).                                                        *)
(*                                                                         *)
(* Spec        one node, arbitrary Peer announcements and send failures    *)
(* SpecDkg     one node, honest announcements, arbitrary DKG relay         *)
(* SpecLedger  one node, honest peers, arbitrary wallet and file system    *)
(* SpecRelay   one node, honest peers, the relay of arbitrary batches      *)
(* SpecNet     a group of quorum_size nodes that exchange Peer and Dkg     *)
(*             messages over reliable channels (SpecGroup: a smaller one)  *)
(* SpecWallet  the wallet client against one authority node                *)
(* SpecStart   one node from its start: the announcements of run           *)
(* SpecSend    one node, announcements that name any address               *)
(* SpecServe   one node that serves requests, the file system working      *)
(* SpecReplay  one spentbook node, its log, and restarts of the process    *)
(* SpecConn    the listeners of one node and the connections they read     *)
(* SpecOver    a group with more members than quorum_size                  *)
(* SpecReissue the reissue command of the wallet client                    *)
(* SpecBroadcast  one broadcast of the client and the members it contacts  *)
(***************************************************************************)
EXTENDS Integers, Sequences, FiniteSets, TLC

(***************************************************************************)
(* Bounds of the model.                                                    *)
(***************************************************************************)
\* XorNames are 1..NumIds; BTreeMap iteration order is the order of the integers.
NumIds == 3
\* announced socket addresses are 1..NumAddrs
NumAddrs == 2
\* configured quorum_size ranges over 1..MaxQuorum
MaxQuorum == 2

Ids == 1..NumIds
Addrs == 1..NumAddrs

\* Option<T>: None is the empty set, Some(x) the singleton.
None == {}
Some(x) == {x}
IsSome(o) == o # {}
Unwrap(o) == CHOOSE x \in o : TRUE

RECURSIVE SortedSeq(_)
\* the keys of a BTreeMap / BTreeSet in iteration order
SortedSeq(S) ==
    IF S = {} THEN <<>>
    ELSE LET m == CHOOSE x \in S : \A y \in S : x <= y
         IN <<m>> \o SortedSeq(S \ {m})

(***************************************************************************)
(* Wire messages (wire.rs, MintNetworkMsg) and the transport.              *)
(***************************************************************************)
\* wire::spentbook::p2p::Msg::Peer / MintNetworkMsg::Peer
PeerMsg(actor, addr) == [type |-> "Peer", actor |-> actor, addr |-> addr]

\* wire::spentbook::p2p::Msg::Dkg / MintNetworkMsg::Dkg, carrying a bls_dkg message
DkgMsg(round, from, names) ==
    [type |-> "Dkg", round |-> round, from |-> from, names |-> names]

\* mutant of SendNetworkMsg: the destination is connected to as it is
SendNetworkMsg_Direct(s, msg, dest) == [dest |-> dest, addr |-> dest, msg |-> msg]

\* send_network_msg / send_mint_network_msg: the message as put on the wire.
\* dest is the requested destination, addr the address connected to.
SendNetworkMsg(s, msg, dest) ==
    [dest |-> dest,
     addr |-> IF dest = s.public_addr THEN s.local_addr ELSE dest,
     msg |-> msg]

\* A handler awaits its sends one after another and returns at the first
\* failure (the ? operator).  fail = k makes the k-th send fail; any other
\* value lets all of them succeed.  out holds the sends that succeeded.
RunSends(plan, fail) ==
    IF fail \in 1..Len(plan)
    THEN [out |-> SubSeq(plan, 1, fail - 1), ok |-> FALSE]
    ELSE [out |-> plan, ok |-> TRUE]

(***************************************************************************)
(* bls_dkg::KeyGen, the external DKG collaborator, reduced to what the     *)
(* nodes observe of it: a session needs the Initialization message of      *)
(* every participant before it sends its Proposal to every participant,    *)
(* and the Proposal of every participant before it is finalized.  A        *)
(* Proposal that arrives early is kept by the session.                     *)
(***************************************************************************)
KeyGenInitialize(our_id, threshold, names) ==
    [keygen |-> [our_id |-> our_id, threshold |-> threshold, names |-> names,
                 phase |-> "Initialization", inits |-> {}, props |-> {}],
     msgs |-> [i \in 1..Cardinality(names) |->
                 [target |-> SortedSeq(names)[i],
                  message |-> DkgMsg("Initialization", our_id, names)]]]

KeyGenIsFinalized(kg) == kg.phase = "Finalization"

\* handle_message: Err for a message of a sender outside the session or of
\* another participant set
KeyGenAccepts(kg, m) == m.from \in kg.names /\ m.names = kg.names

KeyGenHandleMessage(kg, m) ==
    LET inits == IF m.round = "Initialization" THEN kg.inits \cup {m.from} ELSE kg.inits
        props == IF m.round = "Proposal" THEN kg.props \cup {m.from} ELSE kg.props
        advance == kg.phase = "Initialization" /\ inits = kg.names
        phase1 == IF advance THEN "Contribution" ELSE kg.phase
        phase2 == IF phase1 = "Contribution" /\ props = kg.names
                  THEN "Finalization" ELSE phase1
    IN [keygen |-> [kg EXCEPT !.inits = inits, !.props = props, !.phase = phase2],
        msgs |-> IF advance
                 THEN [i \in 1..Cardinality(kg.names) |->
                         [target |-> SortedSeq(kg.names)[i],
                          message |-> DkgMsg("Proposal", kg.our_id, kg.names)]]
                 ELSE <<>>]

\* generate_keys: the outcome (public key set, key share index) of a finalized session
KeyGenOutcome(kg) == [public_key_set |-> kg.names, index |-> kg.our_id]

(***************************************************************************)
(* The authority node: SpentbookNodeServer / MintNodeServerData.            *)
(* kind is "spentbook" or "mint"; the field spentbook_node stands for      *)
(* mint_node in a mint node.  status is "running" while the listen loop    *)
(* runs, "error" once a handler's Err has left it, "panic" after an        *)
(* unwrap of None.                                                         *)
(***************************************************************************)
\* do_main: the node as constructed, its own entry already in the registry
NewServer(kind, id, q, pub, loc) ==
    [kind |-> kind, xor_name |-> id, quorum_size |-> q,
     public_addr |-> pub, local_addr |-> loc,
     peers |-> (id :> pub),
     spentbook_node |-> None, keygen |-> None,
     status |-> "running"]

\* what a handler hands back: the node afterwards, the sends that succeeded,
\* Ok / Err / Panic, and the calls it made (for the history variables)
Result(s, out, res, calls) == [self |-> s, out |-> out, res |-> res, calls |-> calls]

\* broadcast_p2p_messages (spentbook): a target missing from the registry is skipped
\* broadcast_dkg_messages (mint): the lookup is unwrapped
BroadcastPlan(s, message_and_target) ==
    LET known == SelectSeq(message_and_target, LAMBDA mt : mt.target \in DOMAIN s.peers)
    IN [i \in 1..Len(known) |->
          SendNetworkMsg(s, known[i].message, s.peers[known[i].target])]

\* the index of the first pair whose target the registry lacks, 0 if none
FirstMiss(s, message_and_target) ==
    LET miss == {i \in 1..Len(message_and_target) :
                    message_and_target[i].target \notin DOMAIN s.peers}
    IN IF miss = {} THEN 0 ELSE CHOOSE i \in miss : \A j \in miss : i <= j

\* Ok / Err / Panic of broadcasting a batch, with the sends that succeeded
BroadcastMessages(s, message_and_target, fail) ==
    LET miss == FirstMiss(s, message_and_target)
    IN IF s.kind = "mint" /\ miss # 0
       THEN \* mint: unwrap panics at the first missing target
            LET r == RunSends(BroadcastPlan(s, SubSeq(message_and_target, 1, miss - 1)), fail)
            IN [out |-> r.out, res |-> IF r.ok THEN "Panic" ELSE "Err"]
       ELSE LET r == RunSends(BroadcastPlan(s, message_and_target), fail)
            IN [out |-> r.out, res |-> IF r.ok THEN "Ok" ELSE "Err"]

\* mutant of InitiateDkg: the participants are every id, not the registry's keys
InitiateDkg_EveryId(s, fail) ==
    LET init == KeyGenInitialize(s.xor_name, Cardinality(Ids) - 1, Ids)
        b == BroadcastMessages(s, init.msgs, fail)
    IN IF b.res = "Ok"
       THEN Result([s EXCEPT !.keygen = Some(init.keygen)], b.out, "Ok", {"initiate_dkg"})
       ELSE Result(s, b.out, b.res, {"initiate_dkg"})

\* mutant of InitiateDkg: the session is recorded before the relays are sent
InitiateDkg_SessionFirst(s, fail) ==
    LET names == DOMAIN s.peers
        init == KeyGenInitialize(s.xor_name, Cardinality(names) - 1, names)
        b == BroadcastMessages(s, init.msgs, fail)
    IN Result([s EXCEPT !.keygen = Some(init.keygen)], b.out, b.res, {"initiate_dkg"})

\* initiate_dkg
InitiateDkg(s, fail) ==
    LET names == DOMAIN s.peers
        threshold == Cardinality(names) - 1
        init == KeyGenInitialize(s.xor_name, threshold, names)
        b == BroadcastMessages(s, init.msgs, fail)
    IN IF b.res = "Ok"
       THEN Result([s EXCEPT !.keygen = Some(init.keygen)], b.out, "Ok", {"initiate_dkg"})
       ELSE Result(s, b.out, b.res, {"initiate_dkg"})

\* mutant of KnownPeer: only the node's own id counts as known
KnownPeer_OwnOnly(s, actor) == actor = s.xor_name

\* handle_peer_msg: is the announced id already in the registry
KnownPeer(s, actor) == actor \in DOMAIN s.peers

\* mutant of QuorumGate: the gate stays open once quorum_size is reached
QuorumGate_AtLeast(s) == Cardinality(DOMAIN s.peers) >= s.quorum_size

\* mutant of QuorumGate: the registry has to exceed quorum_size
QuorumGate_Exceeds(s) == Cardinality(DOMAIN s.peers) > s.quorum_size

\* handle_peer_msg: the quorum gate, evaluated after the insertion
QuorumGate(s) == Cardinality(DOMAIN s.peers) = s.quorum_size

\* mutant of PeerListPlan: the node's own entry is left out
PeerListPlan_SkipSelf(s, addr) ==
    LET keys == SortedSeq(DOMAIN s.peers \ {s.xor_name})
    IN [i \in 1..Len(keys) |-> SendNetworkMsg(s, PeerMsg(keys[i], s.peers[keys[i]]), addr)]

\* handle_peer_msg: "Here we send our peer list back to the new peer."
PeerListPlan(s, addr) ==
    LET keys == SortedSeq(DOMAIN s.peers)
    IN [i \in 1..Len(keys) |-> SendNetworkMsg(s, PeerMsg(keys[i], s.peers[keys[i]]), addr)]

\* mutant of HandlePeerMsg: the newcomer is inserted before the peer list is sent
HandlePeerMsg_InsertFirst(s, actor, addr, fail) ==
    IF KnownPeer(s, actor)
    THEN Result(s, <<>>, "Ok", {})
    ELSE LET s1 == [s EXCEPT !.peers = (actor :> addr) @@ s.peers]
             r == RunSends(PeerListPlan(s, addr), fail)
         IN IF ~r.ok
            THEN Result(s1, r.out, "Err", {"insert"})
            ELSE IF QuorumGate(s1)
                 THEN LET d == InitiateDkg(s1, fail - Len(r.out))
                      IN Result(d.self, r.out \o d.out, d.res, {"insert"} \cup d.calls)
                 ELSE Result(s1, r.out, "Ok", {"insert"})

\* handle_peer_msg
HandlePeerMsg(s, actor, addr, fail) ==
    IF KnownPeer(s, actor)
    THEN Result(s, <<>>, "Ok", {})
    ELSE LET plan == PeerListPlan(s, addr)
             r == RunSends(plan, fail)
             s1 == [s EXCEPT !.peers = (actor :> addr) @@ s.peers]
         IN IF ~r.ok
            THEN Result(s, r.out, "Err", {})
            ELSE IF QuorumGate(s1)
                 THEN LET d == InitiateDkg(s1, fail - Len(plan))
                      IN Result(d.self, r.out \o d.out, d.res, {"insert"} \cup d.calls)
                 ELSE Result(s1, r.out, "Ok", {"insert"})

(***************************************************************************)
(* The ledger collaborators SpentBookNodeMock and MintNode (sn_dbc),       *)
(* reduced to the key image -> transaction map of spent inputs and to the  *)
(* verdict on a request.  Transaction 0 and reissue request 0 are the      *)
(* ones the collaborator's validation rejects.                             *)
(***************************************************************************)
NumKeyImages == 1
NumTxs == 2
KeyImages == 1..NumKeyImages
Txs == 0..NumTxs
ReissueRequests == 0..1

EmptyMap == [x \in {} |-> 0]

\* SpentBookNodeMock::from(key manager): nothing spent yet
NewLedger(outcome) == [key_manager |-> outcome, spent |-> EmptyMap]

\* SpentBookNodeMock::log_spent
LogSpent(node, key_image, tx) ==
    IF tx = 0
    THEN [node |-> node, res |-> "Invalid"]
    ELSE IF key_image \in DOMAIN node.spent /\ node.spent[key_image] # tx
         THEN [node |-> node, res |-> "AlreadySpent"]
         ELSE [node |-> [node EXCEPT !.spent = (key_image :> tx) @@ node.spent],
               res |-> "Ok"]

\* MintNode::reissue
Reissue(node, rr) == IF rr = 0 THEN "Invalid" ELSE "Ok"

(***************************************************************************)
(* The spent log (config.spentbook_file): the bytes of the file as a       *)
(* sequence of tokens, a serialized entry E, the prefix P of one that a    *)
(* short write leaves, or the line terminator NL.                          *)
(***************************************************************************)
EntryTok(k, t) == [tok |-> "E", key_image |-> k, transaction |-> t]
PartTok == [tok |-> "P", key_image |-> 0, transaction |-> 0]
NLTok == [tok |-> "NL", key_image |-> 0, transaction |-> 0]

NoFile == [exists |-> FALSE, data |-> <<>>]

\* the outcomes of the file system calls of one append:
\* open, ron::to_string, write(entry) and write("\n")
AppendOutcomes ==
    [open : BOOLEAN, ser : BOOLEAN, w1 : {"full", "short", "err"}, w2 : BOOLEAN]

\* the write of the entry: its Result is discarded (let _ =)
WriteEntry(data, k, t, io) ==
    CASE io.w1 = "full" -> Append(data, EntryTok(k, t))
      [] io.w1 = "short" -> Append(data, PartTok)
      [] OTHER -> data

\* the write of the line terminator: its Result is discarded (let _ =)
WriteNewline(data, io) == IF io.w2 THEN Append(data, NLTok) ELSE data

\* append_spent_log
AppendSpentLog(file, k, t, io) ==
    IF ~io.open
    THEN [file |-> file, ok |-> FALSE]
    ELSE IF ~io.ser
         THEN [file |-> [file EXCEPT !.exists = TRUE], ok |-> FALSE]
         ELSE [file |-> [exists |-> TRUE,
                         data |-> WriteNewline(WriteEntry(file.data, k, t, io), io)],
               ok |-> TRUE]

RECURSIVE Lines(_)
\* BufRead::lines: the file split at its line terminators; a last line
\* without terminator is a line, an empty rest is not
Lines(data) ==
    IF data = <<>> THEN <<>>
    ELSE LET nl == {i \in 1..Len(data) : data[i].tok = "NL"}
         IN IF nl = {} THEN <<data>>
            ELSE LET i == CHOOSE x \in nl : \A y \in nl : x <= y
                 IN <<SubSeq(data, 1, i - 1)>> \o Lines(SubSeq(data, i + 1, Len(data)))

\* ron::from_str::<SpentLogEntry>: a line parses iff it is one whole entry
LineParses(line) == Len(line) = 1 /\ line[1].tok = "E"

RECURSIVE ReplayLines(_, _)
\* the loop of read_spentbook_log: a line that does not parse ends it with
\* Err (the ? operator), an entry the collaborator rejects is logged and skipped
ReplayLines(node, lines) ==
    IF lines = <<>> THEN [node |-> node, ok |-> TRUE]
    ELSE IF ~LineParses(Head(lines))
         THEN [node |-> node, ok |-> FALSE]
         ELSE ReplayLines(LogSpent(node, Head(lines)[1].key_image,
                                   Head(lines)[1].transaction).node,
                          Tail(lines))

\* mutant of ReadSpentbookLog: the log is left unread
ReadSpentbookLog_Skip(s, file, openOk) == [self |-> s, ok |-> TRUE]

\* read_spentbook_log; openOk is the outcome of File::open
ReadSpentbookLog(s, file, openOk) ==
    IF ~file.exists THEN [self |-> s, ok |-> TRUE]
    ELSE IF ~openOk THEN [self |-> s, ok |-> FALSE]
    ELSE IF IsSome(s.spentbook_node)
         THEN LET r == ReplayLines(Unwrap(s.spentbook_node), Lines(file.data))
              IN [self |-> [s EXCEPT !.spentbook_node = Some(r.node)], ok |-> r.ok]
         ELSE [self |-> s, ok |-> TRUE]

(***************************************************************************)
(* DKG relay handling and the request server.                              *)
(***************************************************************************)
\* mutant of AlreadyFinalized: the early return is missing
AlreadyFinalized_Never(kg) == FALSE

\* handle_p2p_message / handle_dkg_message: "ignoring dkg message because
\* already finalized"
AlreadyFinalized(kg) == KeyGenIsFinalized(kg)

\* the second match of handle_p2p_message / handle_dkg_message: the session
\* is finalized, its keys are installed; genOk is whether generate_keys
\* returns Some, openOk the outcome of opening the spent log
InstallKeys(s, file, genOk, openOk) ==
    IF ~genOk
    THEN IF s.kind = "mint"
         THEN [self |-> s, res |-> "Panic", calls |-> {}]
         ELSE [self |-> s, res |-> "Ok", calls |-> {}]
    ELSE LET s1 == [s EXCEPT !.spentbook_node =
                        Some(NewLedger(KeyGenOutcome(Unwrap(s.keygen))))]
         IN IF s.kind = "mint"
            THEN [self |-> s1, res |-> "Ok", calls |-> {"install"}]
            ELSE LET r == ReadSpentbookLog(s1, file, openOk)
                 IN [self |-> r.self, res |-> IF r.ok THEN "Ok" ELSE "Err",
                     calls |-> {"install", "replay"}]

\* mutant of DropBeforeSession: a message without session is an error
DropBeforeSession_Err(s) == Result(s, <<>>, "Err", {})

\* handle_p2p_message / handle_dkg_message: "received dkg message before
\* initiating dkg", both matches take their None arm
DropBeforeSession(s) == Result(s, <<>>, "Ok", {})

\* handle_p2p_message (spentbook) / handle_dkg_message (mint)
HandleDkgMessage(s, file, message, fail, genOk, openOk) ==
    IF ~IsSome(s.keygen)
    THEN DropBeforeSession(s)
    ELSE LET kg == Unwrap(s.keygen)
         IN IF AlreadyFinalized(kg)
            THEN Result(s, <<>>, "Ok", {})
            ELSE IF ~KeyGenAccepts(kg, message)
                 THEN Result(s, <<>>, "Err", {"handle_message", "handle_message_err"})
                 ELSE LET h == KeyGenHandleMessage(kg, message)
                          s1 == [s EXCEPT !.keygen = Some(h.keygen)]
                          b == BroadcastMessages(s1, h.msgs, fail)
                      IN IF b.res # "Ok"
                         THEN Result(s1, b.out, b.res, {"handle_message"})
                         ELSE IF KeyGenIsFinalized(h.keygen)
                              THEN LET i == InstallKeys(s1, file, genOk, openOk)
                                   IN Result(i.self, b.out, i.res,
                                             {"handle_message"} \cup i.calls)
                              ELSE Result(s1, b.out, "Ok", {"handle_message"})

\* wire::spentbook::wallet::Error and the collaborator's typed failures
\* mutant of ReplyErr: the failure is replaced by Internal
ReplyErr_Opaque(e) == [type |-> "LogSpent", ok |-> FALSE, val |-> "Internal"]

ReplyErr(e) == [type |-> "LogSpent", ok |-> FALSE, val |-> e]
ReplyOk(share) == [type |-> "LogSpent", ok |-> TRUE, val |-> share]

\* the SpentProofShare a node signs for (key_image, tx)
SpentProofShare(node, key_image, tx) ==
    [key_image |-> key_image, tx |-> tx, index |-> node.key_manager.index]

\* e.into(): the failure of the collaborator as the wire carries it
IntoWalletError(e) == e

\* handle_log_spent_request: the reply payload, the node and the file afterwards
HandleLogSpentRequest(s, file, key_image, tx, io) ==
    IF IsSome(s.spentbook_node)
    THEN LET node == Unwrap(s.spentbook_node)
             r == LogSpent(node, key_image, tx)
             s1 == [s EXCEPT !.spentbook_node = Some(r.node)]
         IN IF r.res = "Ok"
            THEN LET a == AppendSpentLog(file, key_image, tx, io)
                 IN IF a.ok
                    THEN [self |-> s1, file |-> a.file, calls |-> {"log_spent", "append"},
                          reply |-> ReplyOk(SpentProofShare(r.node, key_image, tx))]
                    ELSE [self |-> s1, file |-> a.file, calls |-> {"log_spent", "append"},
                          reply |-> ReplyErr("Internal")]
            ELSE [self |-> s1, file |-> file, calls |-> {"log_spent"},
                  reply |-> ReplyErr(IntoWalletError(r.res))]
    ELSE [self |-> s, file |-> file, calls |-> {}, reply |-> ReplyErr("NotReady")]

\* the Discover arm of listen_for_network_msgs (spentbook)
DiscoverReply(s) ==
    [type |-> "Discover",
     pks |-> IF IsSome(s.spentbook_node)
             THEN Some(Unwrap(s.spentbook_node).key_manager.public_key_set)
             ELSE None,
     peers |-> s.peers]

\* handle_reissue_request (mint): mint_node is unwrapped
HandleReissueRequest(s, rr) ==
    IF IsSome(s.spentbook_node)
    THEN [res |-> "Ok", calls |-> {"reissue"},
          reply |-> [type |-> "Reissue",
                     ok |-> Reissue(Unwrap(s.spentbook_node), rr) = "Ok",
                     val |-> Reissue(Unwrap(s.spentbook_node), rr)]]
    ELSE [res |-> "Panic", calls |-> {}, reply |-> ReplyErr("none")]

(***************************************************************************)
(* The wallet client: WalletNodeClient (wallet.rs; wallet_node.rs adds the *)
(* mint section).  status is "config" until process_config has joined,     *)
(* "prompt" while run reads commands, "exited" after quit, "error" once    *)
(* run has returned an Err, "panic" after an unwrap of None or a panic!.   *)
(***************************************************************************)
Sections == {"spentbook", "mint"}

\* the reply kind that carries a share: reply::Msg::LogSpent / reply::Msg::Reissue
ShareType(section) == IF section = "spentbook" THEN "LogSpent" ELSE "Reissue"

\* what the far end does with one request: the connection or a send fails
\* ("transport"), the connection ends before a reply ("closed"), bytes that
\* do not deserialize ("decode"), a message that is no wallet reply
\* ("not_reply"), or a reply
NoReplyKinds == {"transport", "closed", "decode", "not_reply"}
Unanswered(kind) == [kind |-> kind, reply |-> None]
Answered(reply) == [kind |-> "reply", reply |-> Some(reply)]

NoError == [kind |-> "none", val |-> "none"]
Error(kind, val) == [kind |-> kind, val |-> val]

\* send_spentbook_network_msg / send_mint_network_msg: one request to one address
SendWalletMsg(answer) ==
    CASE answer.kind = "transport" ->
            [res |-> "Err", err |-> Error("transport", "none"), reply |-> None]
      [] answer.kind = "closed" ->
            [res |-> "Panic", err |-> Error("closed", "none"), reply |-> None]
      [] answer.kind = "decode" ->
            [res |-> "Err", err |-> Error("decode", "none"), reply |-> None]
      [] answer.kind = "not_reply" ->
            [res |-> "Err", err |-> Error("unexpected msg", "none"), reply |-> None]
      [] OTHER ->
            [res |-> "Ok", err |-> NoError, reply |-> answer.reply]

NoCmd ==
    [cmd |-> "none", section |-> "spentbook", answers |-> <<>>,
     res |-> "Ok", err |-> NoError, contacted |-> <<>>, shares |-> <<>>]

\* do_main: the client as constructed, without a view of either section
NewWallet ==
    [spentbook_nodes |-> EmptyMap, spentbook_pks |-> None,
     mint_nodes |-> EmptyMap, mint_pks |-> None,
     status |-> "config", last |-> NoCmd]

\* the cached quorum view of a section: registry snapshot and verification material
View(w, section) ==
    IF section = "spentbook"
    THEN [nodes |-> w.spentbook_nodes, pks |-> w.spentbook_pks]
    ELSE [nodes |-> w.mint_nodes, pks |-> w.mint_pks]

\* mutant of JoinSection: the registry snapshot is merged into the cached one
JoinSection_Merge(w, section, answer) ==
    LET r == SendWalletMsg(answer)
        old == View(w, section).nodes
    IN IF r.res # "Ok"
       THEN [self |-> w, res |-> r.res, err |-> r.err]
       ELSE LET m == Unwrap(r.reply)
                merged == IF m.type = "Discover"
                          THEN [x \in DOMAIN old \cup DOMAIN m.peers |->
                                  IF x \in DOMAIN m.peers THEN m.peers[x] ELSE old[x]]
                          ELSE old
            IN IF m.type = "Discover"
               THEN [self |-> IF section = "spentbook"
                              THEN [w EXCEPT !.spentbook_pks = Some(m.pks),
                                             !.spentbook_nodes = merged]
                              ELSE [w EXCEPT !.mint_pks = Some(m.pks),
                                             !.mint_nodes = merged],
                     res |-> "Ok", err |-> NoError]
               ELSE [self |-> w, res |-> "Panic", err |-> Error("unexpected reply", "none")]

\* join_spentbook_section / join_mint_section
JoinSection(w, section, answer) ==
    LET r == SendWalletMsg(answer)
    IN IF r.res # "Ok"
       THEN [self |-> w, res |-> r.res, err |-> r.err]
       ELSE LET m == Unwrap(r.reply)
            IN IF m.type = "Discover"
               THEN [self |-> IF section = "spentbook"
                              THEN [w EXCEPT !.spentbook_pks = Some(m.pks),
                                             !.spentbook_nodes = m.peers]
                              ELSE [w EXCEPT !.mint_pks = Some(m.pks),
                                             !.mint_nodes = m.peers],
                     res |-> "Ok", err |-> NoError]
               ELSE [self |-> w, res |-> "Panic", err |-> Error("unexpected reply", "none")]

\* the addresses of a registry snapshot in BTreeMap iteration order
SnapshotAddrs(nodes) ==
    [i \in 1..Cardinality(DOMAIN nodes) |-> nodes[SortedSeq(DOMAIN nodes)[i]]]

RECURSIVE BroadcastLoop(_, _, _, _, _)
\* the for loop of broadcast_log_spent / broadcast_reissue from the i-th
\* address on: the first Err or panic leaves the loop
BroadcastLoop(section, dests, answers, i, acc) ==
    IF i > Len(dests)
    THEN [res |-> "Ok", err |-> NoError,
          contacted |-> acc.contacted, collected |-> acc.collected]
    ELSE LET r == SendWalletMsg(answers[i])
             contacted == Append(acc.contacted, dests[i])
         IN IF r.res # "Ok"
            THEN [res |-> r.res, err |-> r.err,
                  contacted |-> contacted, collected |-> acc.collected]
            ELSE LET m == Unwrap(r.reply)
                 IN IF m.type # ShareType(section)
                    THEN [res |-> "Err", err |-> Error("unexpected reply", "none"),
                          contacted |-> contacted, collected |-> acc.collected]
                    ELSE IF ~m.ok
                    THEN [res |-> "Err", err |-> Error("error reply", m.val),
                          contacted |-> contacted, collected |-> acc.collected]
                    ELSE BroadcastLoop(section, dests, answers, i + 1,
                                       [contacted |-> contacted,
                                        collected |-> Append(acc.collected, m.val)])

\* mutant of BroadcastShares: the shares collected before the failure are returned
BroadcastShares_Partial(w, section, answers) ==
    LET b == BroadcastLoop(section, SnapshotAddrs(View(w, section).nodes), answers, 1,
                           [contacted |-> <<>>, collected |-> <<>>])
    IN [res |-> b.res, err |-> b.err, contacted |-> b.contacted,
        shares |-> b.collected]

\* broadcast_log_spent / broadcast_reissue: Ok(shares) after the last member,
\* the shares vector is dropped with an Err
BroadcastShares(w, section, answers) ==
    LET b == BroadcastLoop(section, SnapshotAddrs(View(w, section).nodes), answers, 1,
                           [contacted |-> <<>>, collected |-> <<>>])
    IN [res |-> b.res, err |-> b.err, contacted |-> b.contacted,
        shares |-> IF b.res = "Ok" THEN b.collected ELSE <<>>]

\* process_config: the sections of the configuration are joined, spentbook
\* first; the Err of a join leaves run through ?
ProcessConfig(w, answers) ==
    LET skip(a) == a.kind = "unconfigured"
        j1 == IF skip(answers[1])
              THEN [self |-> w, res |-> "Ok", err |-> NoError]
              ELSE JoinSection(w, "spentbook", answers[1])
        j2 == IF j1.res # "Ok" \/ skip(answers[2])
              THEN j1
              ELSE JoinSection(j1.self, "mint", answers[2])
    IN [j2.self EXCEPT !.status = CASE j2.res = "Ok" -> "prompt"
                                    [] j2.res = "Err" -> "error"
                                    [] OTHER -> "panic",
                       !.last = [cmd |-> "config", section |-> "spentbook",
                                 answers |-> answers, res |-> j2.res, err |-> j2.err,
                                 contacted |-> <<>>, shares |-> <<>>]]

\* one turn of the loop of run: the command is dispatched and its Err printed
RunCommand(w, cmd, section, answers) ==
    LET r == CASE cmd = "join" ->
                    LET j == JoinSection(w, "spentbook", answers[1])
                    IN [self |-> j.self, res |-> j.res, err |-> j.err,
                        contacted |-> <<>>, shares |-> <<>>]
               [] cmd = "broadcast" ->
                    LET b == BroadcastShares(w, section, answers)
                    IN [self |-> w, res |-> b.res, err |-> b.err,
                        contacted |-> b.contacted, shares |-> b.shares]
               [] cmd = "unknown" ->
                    [self |-> w, res |-> "Err", err |-> Error("Unknown command", "none"),
                     contacted |-> <<>>, shares |-> <<>>]
               [] cmd = "malformed" ->
                    [self |-> w, res |-> "Err", err |-> Error("parse", "none"),
                     contacted |-> <<>>, shares |-> <<>>]
               [] OTHER ->
                    [self |-> w, res |-> "Ok", err |-> NoError,
                     contacted |-> <<>>, shares |-> <<>>]
    IN [r.self EXCEPT !.status = CASE r.res = "Panic" -> "panic"
                                   [] cmd = "quit" -> "exited"
                                   [] OTHER -> "prompt",
                      !.last = [cmd |-> cmd, section |-> section, answers |-> answers,
                                res |-> r.res, err |-> r.err,
                                contacted |-> r.contacted, shares |-> r.shares]]

(***************************************************************************)
(* The endpoints of a node and the connections made to them.               *)
(***************************************************************************)
\* connections are 1..MaxConns
MaxConns == 2
\* messages that arrive at the node
MaxArrivals == 2

Listeners == {"p2p", "wallet"}

ListenersOf(kind) == IF kind = "mint" THEN {"p2p", "wallet"} ELSE {"p2p"}

NoItem == [kind |-> "none", at |-> 0, actor |-> 0]

\* do_main: the endpoints as created, no connection yet
NewConn ==
    [opened |-> 0,
     ep |-> [c \in 1..MaxConns |-> "p2p"],
     stream |-> [c \in 1..MaxConns |-> <<>>],
     queue |-> [l \in Listeners |-> <<>>],
     cur |-> [l \in Listeners |-> None],
     lock |-> None,
     arrivals |-> 0,
     read |-> NoItem,
     handled |-> <<>>]

(***************************************************************************)
(* State.                                                                  *)
(*   node            the authority node (one process)                      *)
(*   spentbook_file  the spent log on disk; it outlives the process        *)
(*   last            the last inbound item handled and what the node did   *)
(*                   for it: sends that succeeded, reply sent, calls made  *)
(*   hist            per process: calls of initiate_dkg, installations of  *)
(*                   key material                                          *)
(*   cluster         the nodes of a group, by member (SpecNet)             *)
(*   net             the messages in flight, by (sender, receiver)         *)
(*   wallet          the wallet client (SpecWallet)                        *)
(*   conn            the connections to the node and its listeners         *)
(*                   (SpecConn)                                            *)
(***************************************************************************)
VARIABLES node, spentbook_file, last, hist, cluster, net, wallet, conn

vars == <<node, spentbook_file, last, hist, cluster, net, wallet, conn>>

\* the spent log holds at most this many tokens
MaxLogTokens == 4

OwnPublicAddr == 1
OwnLocalAddr == 0

Kinds == {"spentbook", "mint"}

NoArg == [actor |-> 0, addr |-> 0]
NoLast == [op |-> "start", arg |-> NoArg, out |-> <<>>, res |-> "Ok",
           reply |-> None, calls |-> {}]
NoHist == [dkg_inits |-> 0, installs |-> 0]

StatusAfter(res) ==
    CASE res = "Ok" -> "running"
      [] res = "Err" -> "error"
      [] OTHER -> "panic"

Count(n, call, calls) == IF call \in calls THEN n + 1 ELSE n

HistAfter(calls) ==
    [dkg_inits |-> Count(hist.dkg_inits, "initiate_dkg", calls),
     installs |-> Count(hist.installs, "install", calls)]

Init ==
    /\ \E kind \in Kinds, id \in Ids, q \in 1..MaxQuorum :
          node = NewServer(kind, id, q, OwnPublicAddr, OwnLocalAddr)
    /\ spentbook_file = NoFile
    /\ last = NoLast
    /\ hist = NoHist
    /\ cluster = <<>>
    /\ net = <<>>
    /\ wallet = NewWallet
    /\ conn = NewConn

\* the DKG messages the environment may relay to a node: of any round and
\* sender, for the participant set of the node's session or for another one
DkgMsgs(s) ==
    {DkgMsg(round, from, names) :
        round \in {"Initialization", "Proposal"}, from \in Ids,
        names \in {Ids} \cup {kg.names : kg \in s.keygen}}

\* where a send of handle_peer_msg may fail: nowhere (0), at the first or
\* the last message of the peer list, at the first or the last DKG message
PeerFailChoices(s) ==
    {0, 1, Cardinality(DOMAIN s.peers), Cardinality(DOMAIN s.peers) + 1,
     Cardinality(DOMAIN s.peers) + s.quorum_size}

\* the outcomes of the calls of one DKG relay: a send that fails (the first
\* or the last of the batch), or generate_keys returning None, or the open of
\* the spent log failing
DkgOutcomes(s) ==
    {[fail |-> f, genOk |-> TRUE, openOk |-> TRUE] : f \in {0, 1, s.quorum_size}}
    \cup {[fail |-> 0, genOk |-> FALSE, openOk |-> TRUE],
          [fail |-> 0, genOk |-> TRUE, openOk |-> FALSE]}

\* the outcomes of the calls of one LogSpent request: those of the append,
\* then that of connection.send(reply)
LogSpentOutcomes ==
    {[io |-> io, replyOk |-> TRUE] : io \in {o \in AppendOutcomes : o.open /\ o.ser}}
    \cup {[io |-> [open |-> FALSE, ser |-> TRUE, w1 |-> "full", w2 |-> TRUE], replyOk |-> TRUE],
          [io |-> [open |-> TRUE, ser |-> FALSE, w1 |-> "full", w2 |-> TRUE], replyOk |-> TRUE],
          [io |-> [open |-> TRUE, ser |-> TRUE, w1 |-> "full", w2 |-> TRUE], replyOk |-> FALSE]}

\* p2p::Msg::Peer arm of the listen loop
RecvPeer(actor, addr, fail) ==
    /\ node.status = "running"
    /\ LET r == HandlePeerMsg(node, actor, addr, fail)
       IN /\ node' = [r.self EXCEPT !.status = StatusAfter(r.res)]
          /\ last' = [op |-> "peer", arg |-> [actor |-> actor, addr |-> addr],
                      out |-> r.out, res |-> r.res, reply |-> None, calls |-> r.calls]
          /\ hist' = HistAfter(r.calls)
    /\ UNCHANGED <<spentbook_file, cluster, net, wallet, conn>>

\* p2p::Msg::Dkg arm of the listen loop
RecvDkg(message, fail, genOk, openOk) ==
    /\ node.status = "running"
    /\ LET r == HandleDkgMessage(node, spentbook_file, message, fail, genOk, openOk)
       IN /\ node' = [r.self EXCEPT !.status = StatusAfter(r.res)]
          /\ last' = [op |-> "dkg", arg |-> NoArg,
                      out |-> r.out, res |-> r.res, reply |-> None, calls |-> r.calls]
          /\ hist' = HistAfter(r.calls)
    /\ UNCHANGED <<spentbook_file, cluster, net, wallet, conn>>

\* wallet::request::Msg::LogSpent arm of the listen loop (spentbook);
\* replyOk is the outcome of connection.send(reply)
RecvLogSpent(key_image, tx, io, replyOk) ==
    /\ node.status = "running"
    /\ node.kind = "spentbook"
    /\ Len(spentbook_file.data) + 2 <= MaxLogTokens
    /\ LET r == HandleLogSpentRequest(node, spentbook_file, key_image, tx, io)
           res == IF replyOk THEN "Ok" ELSE "Err"
       IN /\ node' = [r.self EXCEPT !.status = StatusAfter(res)]
          /\ spentbook_file' = r.file
          /\ last' = [op |-> "log_spent",
                      arg |-> [key_image |-> key_image, tx |-> tx, io |-> io,
                               replyOk |-> replyOk],
                      out |-> <<>>, res |-> res,
                      reply |-> IF replyOk THEN Some(r.reply) ELSE None,
                      calls |-> r.calls]
          /\ hist' = HistAfter(r.calls)
    /\ UNCHANGED <<cluster, net, wallet, conn>>

\* wallet::request::Msg::Discover: answered by the spentbook listen loop;
\* WalletNetworkMsg of the mint node has no such variant, so the bytes do
\* not deserialize and the wallet listener returns the error
RecvDiscover(replyOk) ==
    /\ node.status = "running"
    /\ LET res == IF node.kind = "spentbook" /\ replyOk THEN "Ok" ELSE "Err"
       IN /\ node' = [node EXCEPT !.status = StatusAfter(res)]
          /\ last' = [op |-> "discover", arg |-> [replyOk |-> replyOk],
                      out |-> <<>>, res |-> res,
                      reply |-> IF node.kind = "spentbook" /\ replyOk
                                THEN Some(DiscoverReply(node)) ELSE None,
                      calls |-> {}]
    /\ UNCHANGED <<spentbook_file, hist, cluster, net, wallet, conn>>

\* WalletNetworkMsg::Reissue arm of listen_for_wallet_network_msgs (mint)
RecvReissue(rr, replyOk) ==
    /\ node.status = "running"
    /\ node.kind = "mint"
    /\ LET r == HandleReissueRequest(node, rr)
           res == IF r.res = "Ok" /\ ~replyOk THEN "Err" ELSE r.res
       IN /\ node' = [node EXCEPT !.status = StatusAfter(res)]
          /\ last' = [op |-> "reissue", arg |-> [rr |-> rr, replyOk |-> replyOk],
                      out |-> <<>>, res |-> res,
                      reply |-> IF res = "Ok" THEN Some(r.reply) ELSE None,
                      calls |-> r.calls]
    /\ UNCHANGED <<spentbook_file, hist, cluster, net, wallet, conn>>

(***************************************************************************)
(* Environments of one node.  Honest peers announce their one address and  *)
(* relay the DKG messages of the node's session, and sends to them         *)
(* succeed; an arbitrary environment announces any address, relays any     *)
(* DKG message and lets any send fail.                                     *)
(***************************************************************************)
\* the address peer id announces when honest
AddrOf(id) == ((id - 1) % NumAddrs) + 1

\* the DKG messages honest members of the node's session relay
SessionMsgs(s) ==
    {m \in DkgMsgs(s) : \E kg \in s.keygen : m.names = kg.names /\ m.from \in kg.names}

AnyPeer ==
    \E actor \in Ids, addr \in Addrs, fail \in PeerFailChoices(node) :
        RecvPeer(actor, addr, fail)

HonestPeer == \E actor \in Ids : RecvPeer(actor, AddrOf(actor), 0)

AnyDkg ==
    \E m \in DkgMsgs(node), o \in DkgOutcomes(node) :
        RecvDkg(m, o.fail, o.genOk, o.openOk)

HonestDkg == \E m \in SessionMsgs(node) : RecvDkg(m, 0, TRUE, TRUE)

AnyLogSpent ==
    \E k \in KeyImages, t \in Txs, o \in LogSpentOutcomes :
        RecvLogSpent(k, t, o.io, o.replyOk)

AnyDiscover == \E replyOk \in BOOLEAN : RecvDiscover(replyOk)

AnyReissue == \E rr \in ReissueRequests, replyOk \in BOOLEAN : RecvReissue(rr, replyOk)

(***************************************************************************)
(* Spec: the registry and the quorum gate under arbitrary announcements.   *)
(***************************************************************************)
Next == AnyPeer

Spec == Init /\ [][Next]_vars

(***************************************************************************)
(* SpecDkg: the DKG session and the installation of key material under     *)
(* arbitrary DKG relay.                                                    *)
(***************************************************************************)
NextDkg == HonestPeer \/ AnyDkg

SpecDkg == Init /\ [][NextDkg]_vars

(***************************************************************************)
(* SpecLedger: the request server and the spent log under an arbitrary     *)
(* wallet and file system.                                                 *)
(***************************************************************************)
NextLedger == HonestPeer \/ HonestDkg \/ AnyLogSpent \/ AnyDiscover \/ AnyReissue

SpecLedger == Init /\ [][NextLedger]_vars

(***************************************************************************)
(* SpecRelay: broadcast_p2p_messages / broadcast_dkg_messages on any batch *)
(* of (target, message) pairs the session may hand to it, at a node whose  *)
(* registry honest peers have filled.                                      *)
(***************************************************************************)
\* a batch holds at most this many pairs
MaxBatch == 2

\* the batches: any targets, the message being a Proposal of the node
RelayBatches(s) ==
    UNION {[1..n -> [target : Ids,
                     message : {DkgMsg("Proposal", s.xor_name, DOMAIN s.peers)}]] :
              n \in 1..MaxBatch}

\* broadcast_p2p_messages / broadcast_dkg_messages called on a batch, its
\* Err or panic ending the node as it does from every caller
Broadcast(batch, fail) ==
    /\ node.status = "running"
    /\ LET b == BroadcastMessages(node, batch, fail)
       IN /\ node' = [node EXCEPT !.status = StatusAfter(b.res)]
          /\ last' = [op |-> "broadcast", arg |-> [batch |-> batch, fail |-> fail],
                      out |-> b.out, res |-> b.res, reply |-> None, calls |-> {}]
    /\ UNCHANGED <<spentbook_file, hist, cluster, net, wallet, conn>>

AnyBroadcast ==
    \E batch \in RelayBatches(node), fail \in 0..1 : Broadcast(batch, fail)

NextRelay == HonestPeer \/ AnyBroadcast

SpecRelay == Init /\ [][NextRelay]_vars

(***************************************************************************)
(* SpecNet: NetSize nodes of one kind, each configured with quorum_size =  *)
(* NetSize (SpecGroup: GroupSize nodes).                                   *)
(* Member i has XorName i and public address i.  Every send                *)
(* succeeds and every message sent is delivered: a message waits in the    *)
(* channel of its (sender, receiver) pair until the receiver's listen loop *)
(* takes it; channels are first-in first-out, and the receiver takes the   *)
(* channels in any order.                                                  *)
(***************************************************************************)
NetSize == 3

GroupSize == 2

\* the members of the group
Members == DOMAIN cluster

\* a node that has not been started; config_peers is its --peers list (in a
\* group: the set of members it names, which it lists in ascending order)
Down(kind, config_peers) ==
    [kind |-> kind, status |-> "down", config_peers |-> config_peers]

\* the --peers lists a member may be started with: members started before it
BootstrapChoices(i) == IF i = 1 THEN {{}} ELSE (SUBSET (1..(i - 1))) \ {{}}

EmptyNet(n) == [p \in (1..n) \X (1..n) |-> <<>>]

\* the member a message sent by sender reaches: its own listener when the
\* address is its local address, the owner of the address otherwise
Route(sender, m) == IF m.addr = OwnLocalAddr THEN sender ELSE m.addr

\* the sends of sender, in order, appended to the channels they travel on
Enqueue(n, sender, out) ==
    [p \in DOMAIN n |->
        IF p[1] = sender
        THEN n[p] \o SelectSeq(out, LAMBDA m : Route(sender, m) = p[2])
        ELSE n[p]]

InitGroup(n) ==
    /\ \E kind \in Kinds :
          \E boot \in [1..n -> SUBSET (1..n)] :
             /\ \A i \in 1..n : boot[i] \in BootstrapChoices(i)
             /\ cluster = [i \in 1..n |-> Down(kind, boot[i])]
    /\ net = EmptyNet(n)
    /\ node = Down("spentbook", {})
    /\ spentbook_file = NoFile
    /\ last = NoLast
    /\ hist = NoHist
    /\ wallet = NewWallet
    /\ conn = NewConn

\* mutant of StartupPlan: one announcement per address, in the order of the addresses
StartupPlan_Sorted(s, config_peers) ==
    LET dests == SortedSeq({config_peers[i] : i \in 1..Len(config_peers)})
    IN [i \in 1..Len(dests) |->
          SendNetworkMsg(s, PeerMsg(s.xor_name, s.public_addr), dests[i])]

\* run: the startup announcement to every element of config.peers (a Vec)
StartupPlan(s, config_peers) ==
    [i \in 1..Len(config_peers) |->
       SendNetworkMsg(s, PeerMsg(s.xor_name, s.public_addr), config_peers[i])]

\* do_main and the head of run: the node is constructed with --quorum-size q
\* and announces itself
StartAs(i, q) ==
    /\ cluster[i].status = "down"
    /\ \A j \in cluster[i].config_peers : cluster[j].status = "running"
    /\ LET s == NewServer(cluster[i].kind, i, q, i, OwnLocalAddr)
       IN /\ cluster' = [cluster EXCEPT ![i] = s]
          /\ net' = Enqueue(net, i, StartupPlan(s, SortedSeq(cluster[i].config_peers)))
    /\ UNCHANGED <<node, spentbook_file, last, hist, wallet, conn>>

\* a member of a group whose quorum_size is the number of its members
Start(i) == StartAs(i, Cardinality(Members))

\* the listen loop of member j takes the next message of member i: a Peer
DeliverPeer(i, j) ==
    /\ net[<<i, j>>] # <<>>
    /\ Head(net[<<i, j>>]).msg.type = "Peer"
    /\ cluster[j].status = "running"
    /\ LET m == Head(net[<<i, j>>]).msg
           r == HandlePeerMsg(cluster[j], m.actor, m.addr, 0)
       IN /\ cluster' = [cluster EXCEPT ![j] = [r.self EXCEPT !.status = StatusAfter(r.res)]]
          /\ net' = Enqueue([net EXCEPT ![<<i, j>>] = Tail(@)], j, r.out)
    /\ UNCHANGED <<node, spentbook_file, last, hist, wallet, conn>>

\* the listen loop of member j takes the next message of member i: a Dkg
DeliverDkg(i, j) ==
    /\ net[<<i, j>>] # <<>>
    /\ Head(net[<<i, j>>]).msg.type = "Dkg"
    /\ cluster[j].status = "running"
    /\ LET m == Head(net[<<i, j>>]).msg
           r == HandleDkgMessage(cluster[j], NoFile, m, 0, TRUE, TRUE)
       IN /\ cluster' = [cluster EXCEPT ![j] = [r.self EXCEPT !.status = StatusAfter(r.res)]]
          /\ net' = Enqueue([net EXCEPT ![<<i, j>>] = Tail(@)], j, r.out)
    /\ UNCHANGED <<node, spentbook_file, last, hist, wallet, conn>>

StartAny == \E i \in Members : Start(i)

DeliverAnyPeer == \E i \in Members, j \in Members : DeliverPeer(i, j)

DeliverAnyDkg == \E i \in Members, j \in Members : DeliverDkg(i, j)

NextNet == StartAny \/ DeliverAnyPeer \/ DeliverAnyDkg

InitNet == InitGroup(NetSize)

SpecNet == InitNet /\ [][NextNet]_vars

InitSmall == InitGroup(GroupSize)

SpecGroup == InitSmall /\ [][NextNet]_vars

(***************************************************************************)
(* SpecOver: NetSize nodes that are all configured with quorum_size =      *)
(* GroupSize, one node more than the quorum.                               *)
(***************************************************************************)
StartOver == \E i \in Members : StartAs(i, GroupSize)

NextOver == StartOver \/ DeliverAnyPeer \/ DeliverAnyDkg

SpecOver == InitNet /\ [][NextOver]_vars

(***************************************************************************)
(* SpecWallet: the wallet client against one authority node, whose         *)
(* registry grows by honest announcements and which may be started again   *)
(* (under a new XorName, its registry holding itself only).  The far end   *)
(* of a request is the environment: it answers as the node would, with the *)
(* wrong reply, with an error, or not at all.                              *)
(***************************************************************************)
ShareReply(section, ok, val) == [type |-> ShareType(section), ok |-> ok, val |-> val]

\* the answers to a Discover sent to the authority
JoinAnswers(section) ==
    {Unanswered(k) : k \in NoReplyKinds}
    \cup (IF node.kind = section
          THEN {Answered(DiscoverReply(node)),
                Answered(ShareReply(section, TRUE, node.xor_name))}
          ELSE {})

\* process_config joins the sections of the configuration, spentbook first;
\* a section it does not name has the answer "unconfigured"
ConfigAnswers ==
    {<<a, b>> : a \in JoinAnswers("spentbook") \cup {Unanswered("unconfigured")},
                b \in JoinAnswers("mint") \cup {Unanswered("unconfigured")}}

\* the answers that are no share: no reply, another reply kind, an error reply
NoShareAnswers(section) ==
    {Unanswered(k) : k \in NoReplyKinds}
    \cup {Answered(DiscoverReply(node)), Answered(ShareReply(section, FALSE, "Invalid"))}

\* the answers of the members of a snapshot to one broadcast: shares of all
\* of them, or shares up to a member that sends none, the later members
\* answering with shares or being unreachable
BroadcastAnswers(section, nodes) ==
    LET ids == SortedSeq(DOMAIN nodes)
        n == Len(ids)
        share(i) == Answered(ShareReply(section, TRUE, ids[i]))
    IN {[i \in 1..n |-> share(i)]}
       \cup {[i \in 1..n |-> IF i = k THEN bad
                              ELSE IF i > k /\ ~reach THEN Unanswered("transport")
                              ELSE share(i)] :
               k \in 1..n, bad \in NoShareAnswers(section), reach \in BOOLEAN}

\* run, before the loop: process_config
WalletConfig ==
    /\ wallet.status = "config"
    /\ \E answers \in ConfigAnswers : wallet' = ProcessConfig(wallet, answers)
    /\ UNCHANGED <<node, spentbook_file, last, hist, cluster, net, conn>>

\* the command join
CliJoin ==
    /\ wallet.status = "prompt"
    /\ \E a \in JoinAnswers("spentbook") :
          wallet' = RunCommand(wallet, "join", "spentbook", <<a>>)
    /\ UNCHANGED <<node, spentbook_file, last, hist, cluster, net, conn>>

\* a command that broadcasts to a section: reissue (wallet.rs), issue_genesis
CliBroadcast ==
    /\ wallet.status = "prompt"
    /\ \E section \in Sections :
          \E answers \in BroadcastAnswers(section, View(wallet, section).nodes) :
             wallet' = RunCommand(wallet, "broadcast", section, answers)
    /\ UNCHANGED <<node, spentbook_file, last, hist, cluster, net, conn>>

\* the commands that send nothing, an unknown command, input that does not
\* parse, quit
CliLocal ==
    /\ wallet.status = "prompt"
    /\ \E cmd \in {"local", "unknown", "malformed", "quit"} :
          wallet' = RunCommand(wallet, cmd, "spentbook", <<>>)
    /\ UNCHANGED <<node, spentbook_file, last, hist, cluster, net, conn>>

\* the XorNames of the authority group are 1..MaxMembers
MaxMembers == 2

\* the authority admits a member that announces itself
AuthorityAdmits == \E actor \in 1..MaxMembers : RecvPeer(actor, AddrOf(actor), 0)

\* do_main of the authority, run again: a new XorName, the registry as constructed
RestartAuthority ==
    /\ \E id \in 1..MaxMembers :
          node' = NewServer(node.kind, id, node.quorum_size, OwnPublicAddr, OwnLocalAddr)
    /\ last' = NoLast
    /\ hist' = NoHist
    /\ UNCHANGED <<spentbook_file, cluster, net, wallet, conn>>

NextWallet ==
    AuthorityAdmits \/ RestartAuthority \/ WalletConfig \/ CliJoin \/ CliBroadcast \/ CliLocal

\* the authority is a member of a group of MaxMembers, configured with
\* quorum_size = MaxMembers
InitWallet ==
    /\ Init
    /\ node.xor_name \in 1..MaxMembers
    /\ node.quorum_size = MaxMembers

SpecWallet == InitWallet /\ [][NextWallet]_vars

(***************************************************************************)
(* SpecStart: one node from its start: run announces the node to the       *)
(* --peers list, any send of which may fail, and then listens to the       *)
(* announcements of its peers.                                             *)
(***************************************************************************)
\* the --peers list has at most MaxBoot elements
MaxBoot == 2

BootLists == UNION {[1..n -> Addrs] : n \in 0..MaxBoot}

InitStart ==
    /\ \E kind \in Kinds, peers \in BootLists : node = Down(kind, peers)
    /\ spentbook_file = NoFile
    /\ last = NoLast
    /\ hist = NoHist
    /\ cluster = <<>>
    /\ net = <<>>
    /\ wallet = NewWallet
    /\ conn = NewConn

\* do_main and run up to the call of the listen function; fail = k makes
\* the k-th announcement fail, which ends run
Run(id, fail) ==
    /\ node.status = "down"
    /\ LET s == NewServer(node.kind, id, MaxMembers, OwnPublicAddr, OwnLocalAddr)
           r == RunSends(StartupPlan(s, node.config_peers), fail)
           res == IF r.ok THEN "Ok" ELSE "Err"
       IN /\ node' = [s EXCEPT !.status = StatusAfter(res)]
          /\ last' = [op |-> "run", arg |-> [peers |-> node.config_peers, fail |-> fail],
                      out |-> r.out, res |-> res, reply |-> None, calls |-> {}]
    /\ UNCHANGED <<spentbook_file, hist, cluster, net, wallet, conn>>

AnyRun == \E id \in 1..MaxMembers, fail \in 0..MaxBoot : Run(id, fail)

\* the listen loop of the started node: an announcement arrives, and the
\* first send it leads to may fail
PeerArrives ==
    \E actor \in Ids, addr \in Addrs, fail \in {0, 1} : RecvPeer(actor, addr, fail)

NextStart == AnyRun \/ PeerArrives

SpecStart == InitStart /\ [][NextStart]_vars

(***************************************************************************)
(* SpecSend: one node and the announcements of its peers, which may name   *)
(* any address: that of another node, the node's own public address, or    *)
(* the address the node's endpoint is bound to.                            *)
(***************************************************************************)
Dests == Addrs \cup {OwnPublicAddr, OwnLocalAddr}

PeerFrom ==
    \E actor \in Ids, addr \in Dests, fail \in PeerFailChoices(node) :
        RecvPeer(actor, addr, fail)

NextSend == PeerFrom

SpecSend == InitWallet /\ [][NextSend]_vars

(***************************************************************************)
(* SpecServe: one node of a group of MaxMembers that admits its peers,     *)
(* runs the DKG session and then serves the requests of the wallets, the   *)
(* file system working.                                                    *)
(***************************************************************************)
GoodIo == [open |-> TRUE, ser |-> TRUE, w1 |-> "full", w2 |-> TRUE]

ServeLogSpent ==
    \E k \in KeyImages, t \in Txs, replyOk \in BOOLEAN : RecvLogSpent(k, t, GoodIo, replyOk)

NextServe == AuthorityAdmits \/ HonestDkg \/ ServeLogSpent \/ AnyReissue

SpecServe == InitWallet /\ [][NextServe]_vars

(***************************************************************************)
(* SpecReplay: a spentbook node of a group of MaxMembers over the life of  *)
(* its spent log: it admits its peers, runs the DKG session, installs its  *)
(* keys and replays the log, serves LogSpent requests that append to the   *)
(* log, and is started again as a new process over the same file.          *)
(***************************************************************************)
InitReplay ==
    /\ InitWallet
    /\ node.kind = "spentbook"

\* the session's own messages are relayed; generate_keys and the open of
\* the log may fail
SessionDkg ==
    \E m \in SessionMsgs(node), genOk \in BOOLEAN, openOk \in BOOLEAN :
        RecvDkg(m, 0, genOk, openOk)

\* a LogSpent request is served; the write of its entry may be short
LogSpentArrives ==
    \E k \in KeyImages, t \in Txs, io \in {GoodIo, [GoodIo EXCEPT !.w1 = "short"]} :
        RecvLogSpent(k, t, io, TRUE)

NextReplay == AuthorityAdmits \/ SessionDkg \/ LogSpentArrives \/ RestartAuthority

SpecReplay == InitReplay /\ [][NextReplay]_vars

(***************************************************************************)
(* SpecReissue: the wallet client with the DBCs of its wallet file, and    *)
(* the command reissue (wallet.rs).  A DBC is known by its hash, an        *)
(* integer here; Wallet::unspent iterates a BTreeMap keyed by the hash.    *)
(* The transaction and DBC builders of sn_dbc are taken to succeed and to  *)
(* hand the inputs back in the order they were added.                      *)
(***************************************************************************)
\* the wallet file holds at most MaxDbcs DBCs, each of an amount in 1..MaxAmount
MaxDbcs == 2
MaxAmount == 2

\* DbcInfo: the amount, whether spent is Some, and whether the wallet holds the key
DbcInfo(amount, spent, mine) == [amount |-> amount, spent |-> spent, mine |-> mine]

\* the client of do_main with the Wallet loaded from the wallet file
WalletWith(dbcs) ==
    [f \in DOMAIN NewWallet \cup {"dbcs"} |-> IF f = "dbcs" THEN dbcs ELSE NewWallet[f]]

\* WalletNodeClient::unspent: the unspent DBCs the wallet can spend, by hash
Unspent(w) == SortedSeq({d \in DOMAIN w.dbcs : ~w.dbcs[d].spent /\ w.dbcs[d].mine})

RECURSIVE AmountSum(_, _, _)
\* the sum of the amounts of the first k DBCs of ids
AmountSum(w, ids, k) ==
    IF k = 0 THEN 0 ELSE w.dbcs[ids[k]].amount + AmountSum(w, ids, k - 1)

\* balance
Balance(w) == AmountSum(w, Unspent(w), Len(Unspent(w)))

\* cli_reissue: inputs are added in the order of unspent until their sum
\* reaches the amount to spend
SelectInputs(w, spend_amount) ==
    LET ids == Unspent(w)
        k == CHOOSE n \in 1..Len(ids) :
                /\ AmountSum(w, ids, n) >= spend_amount \/ n = Len(ids)
                /\ \A m \in 1..(n - 1) : AmountSum(w, ids, m) < spend_amount
    IN SubSeq(ids, 1, k)

RECURSIVE SpendLoop(_, _, _, _)
\* cli_reissue: the loop over the inputs of the transaction from the i-th
\* on: broadcast_log_spent(...).await?, then mark_spent
SpendLoop(w, inputs, answers, i) ==
    IF i > Len(inputs) THEN [self |-> w, res |-> "Ok", err |-> NoError, done |-> i - 1]
    ELSE LET b == BroadcastShares(w, "spentbook", answers[i])
         IN IF b.res # "Ok"
            THEN [self |-> w, res |-> b.res, err |-> b.err, done |-> i - 1]
            ELSE SpendLoop([w EXCEPT !.dbcs[inputs[i]].spent = TRUE],
                           inputs, answers, i + 1)

\* Wallet::add_dbc(dbc, notes, false) under a hash the wallet does not hold yet
AddDbc(w, amount, mine) ==
    LET h == CHOOSE x \in 1..(Cardinality(DOMAIN w.dbcs) + 1) : x \notin DOMAIN w.dbcs
    IN [w EXCEPT !.dbcs = (h :> DbcInfo(amount, FALSE, mine)) @@ w.dbcs]

\* mutant of WithOutputs: the change is looked for only when there is one
WithOutputs_IfChange(w, spend_amount, change, mine) ==
    LET w1 == AddDbc(w, spend_amount, mine)
    IN IF change > 0
       THEN [self |-> AddDbc(w1, change, TRUE), res |-> "Ok"]
       ELSE [self |-> w1, res |-> "Ok"]

\* cli_reissue after the build: the first DBC of the build is added as the
\* recipient's, the second is unwrapped as the change
WithOutputs(w, spend_amount, change, mine) ==
    LET w1 == AddDbc(w, spend_amount, mine)
    IN IF change > 0
       THEN [self |-> AddDbc(w1, change, TRUE), res |-> "Ok"]
       ELSE [self |-> w1, res |-> "Panic"]

\* mutant of ReissueCmd: the inputs are marked spent before their broadcasts
ReissueCmd_MarkFirst(w, spend_amount, mine, answers) ==
    LET inputs == SelectInputs(w, spend_amount)
        marked == [w EXCEPT !.dbcs = [d \in DOMAIN w.dbcs |->
                     IF \E i \in 1..Len(inputs) : inputs[i] = d
                     THEN [w.dbcs[d] EXCEPT !.spent = TRUE] ELSE w.dbcs[d]]]
        l == SpendLoop(marked, inputs, answers, 1)
        o == WithOutputs(l.self, spend_amount,
                         AmountSum(w, inputs, Len(inputs)) - spend_amount, mine)
        r == IF l.res = "Ok" THEN [self |-> o.self, res |-> o.res] ELSE [self |-> l.self, res |-> l.res]
    IN [r.self EXCEPT !.status = IF r.res = "Panic" THEN "panic" ELSE "prompt",
                      !.last = [cmd |-> "reissue", spend_amount |-> spend_amount,
                                inputs |-> inputs, answers |-> answers,
                                done |-> l.done, res |-> r.res]]

\* cli_reissue with a balance above 0, and the arm of run that prints its Err
ReissueCmd(w, spend_amount, mine, answers) ==
    LET inputs == SelectInputs(w, spend_amount)
        l == SpendLoop(w, inputs, answers, 1)
        o == WithOutputs(l.self, spend_amount,
                         AmountSum(w, inputs, Len(inputs)) - spend_amount, mine)
        r == IF l.res = "Ok" THEN [self |-> o.self, res |-> o.res] ELSE [self |-> l.self, res |-> l.res]
    IN [r.self EXCEPT !.status = IF r.res = "Panic" THEN "panic" ELSE "prompt",
                      !.last = [cmd |-> "reissue", spend_amount |-> spend_amount,
                                inputs |-> inputs, answers |-> answers,
                                done |-> l.done, res |-> r.res]]

\* the answers of the members of a snapshot to the broadcast for one input:
\* shares of all of them, or shares up to a member that is unreachable,
\* closes the connection or answers with an error
InputAnswers(nodes) ==
    LET ids == SortedSeq(DOMAIN nodes)
        n == Len(ids)
        share(i) == Answered(ShareReply("spentbook", TRUE, ids[i]))
    IN {[i \in 1..n |-> share(i)]}
       \cup {[i \in 1..n |-> IF i = k THEN bad ELSE share(i)] :
               k \in 1..n,
               bad \in {Unanswered("transport"), Unanswered("closed"),
                        Answered(ShareReply("spentbook", FALSE, "Invalid"))}}

\* the answers to the broadcasts of a reissue of n inputs: no input is
\* broadcast after one whose broadcast failed, so at most one of them fails
ReissueAnswers(nodes, n) ==
    LET all == InputAnswers(nodes)
        good == CHOOSE v \in all : \A m \in 1..Len(v) : v[m].kind = "reply" /\ Unwrap(v[m].reply).ok
    IN {[i \in 1..n |-> good]}
       \cup {[i \in 1..n |-> IF i = f THEN v ELSE good] : f \in 1..n, v \in all \ {good}}

\* the command reissue: the amount is at most the balance, the recipient's
\* key is the wallet's or another's, the members answer each broadcast
CliReissue ==
    /\ wallet.status = "prompt"
    /\ Balance(wallet) > 0
    /\ Cardinality(DOMAIN wallet.dbcs) <= MaxDbcs
    /\ \E spend_amount \in 0..Balance(wallet), mine \in BOOLEAN :
          \E answers \in ReissueAnswers(wallet.spentbook_nodes,
                                         Len(SelectInputs(wallet, spend_amount))) :
             wallet' = ReissueCmd(wallet, spend_amount, mine, answers)
    /\ UNCHANGED <<node, spentbook_file, last, hist, cluster, net, conn>>

\* the client at its prompt after process_config has joined a section of
\* MaxMembers members, with a wallet file of one to MaxDbcs DBCs it holds
\* the keys of
InitReissue ==
    /\ node = NewServer("spentbook", 1, MaxMembers, OwnPublicAddr, OwnLocalAddr)
    /\ spentbook_file = NoFile
    /\ last = NoLast
    /\ hist = NoHist
    /\ cluster = <<>>
    /\ net = <<>>
    /\ conn = NewConn
    /\ \E n \in 1..MaxDbcs :
          \E dbcs \in [1..n -> [amount : 1..MaxAmount, spent : BOOLEAN, mine : {TRUE}]] :
             wallet = [WalletWith(dbcs) EXCEPT
                         !.status = "prompt",
                         !.spentbook_nodes = [i \in 1..MaxMembers |-> AddrOf(i)],
                         !.spentbook_pks = Some(1..MaxMembers)]

SpecReissue == InitReissue /\ [][CliReissue \/ CliLocal]_vars

(***************************************************************************)
(* SpecBroadcast: the wallet client and the MaxMembers spentbook nodes of  *)
(* its snapshot, all with their keys installed.  Member i has XorName i    *)
(* and public address i; cluster[i] is the node and spentbook_file[i] its  *)
(* spent log.  A broadcast of the client is one step: the members are      *)
(* contacted in turn until the client leaves its loop.                     *)
(***************************************************************************)
\* a member after the DKG session of the whole group has been finalized
ReadyMember(i) ==
    LET names == 1..MaxMembers
        kg == [our_id |-> i, threshold |-> MaxMembers - 1, names |-> names,
               phase |-> "Finalization", inits |-> names, props |-> names]
    IN [NewServer("spentbook", i, MaxMembers, i, OwnLocalAddr) EXCEPT
          !.peers = [j \in names |-> j],
          !.keygen = Some(kg),
          !.spentbook_node = Some(NewLedger(KeyGenOutcome(kg)))]

\* what happens at one member: the client reaches it or not, the write of
\* the entry works or fails, the reply is sent or the send fails
MemberOutcomes ==
    [reach : BOOLEAN, io : {GoodIo, [GoodIo EXCEPT !.w1 = "err"]}, replyOk : BOOLEAN]

\* the answer the client gets from member i under outcome o
MemberAnswer(i, key_image, tx, o) ==
    IF ~o.reach \/ cluster[i].status # "running" THEN Unanswered("transport")
    ELSE IF ~o.replyOk THEN Unanswered("closed")
    ELSE Answered(HandleLogSpentRequest(cluster[i], spentbook_file[i],
                                        key_image, tx, o.io).reply)

\* broadcast_log_spent of the client against handle_log_spent_request of
\* the members it contacts
BroadcastLogSpent(key_image, tx, outcomes) ==
    /\ wallet.status = "prompt"
    /\ \A i \in Members : Len(spentbook_file[i].data) + 2 <= MaxLogTokens
    /\ LET answers == [i \in Members |-> MemberAnswer(i, key_image, tx, outcomes[i])]
           w == RunCommand(wallet, "broadcast", "spentbook", answers)
           k == Len(w.last.contacted)
           got(i) == i <= k /\ outcomes[i].reach /\ cluster[i].status = "running"
           r(i) == HandleLogSpentRequest(cluster[i], spentbook_file[i],
                                         key_image, tx, outcomes[i].io)
       IN /\ wallet' = w
          /\ cluster' = [i \in Members |->
                IF got(i)
                THEN [r(i).self EXCEPT !.status =
                        StatusAfter(IF outcomes[i].replyOk THEN "Ok" ELSE "Err")]
                ELSE cluster[i]]
          /\ spentbook_file' = [i \in Members |->
                IF got(i) THEN r(i).file ELSE spentbook_file[i]]
          /\ last' = [op |-> "broadcast",
                      arg |-> [key_image |-> key_image, tx |-> tx, outcomes |-> outcomes],
                      out |-> <<>>, res |-> w.last.res, reply |-> None, calls |-> {}]
    /\ UNCHANGED <<node, hist, net, conn>>

AnyBroadcastLogSpent ==
    \E k \in KeyImages, t \in Txs, outcomes \in [Members -> MemberOutcomes] :
        BroadcastLogSpent(k, t, outcomes)

InitBroadcast ==
    /\ node = Down("spentbook", <<>>)
    /\ cluster = [i \in 1..MaxMembers |-> ReadyMember(i)]
    /\ spentbook_file = [i \in 1..MaxMembers |-> NoFile]
    /\ last = NoLast
    /\ hist = NoHist
    /\ net = <<>>
    /\ conn = NewConn
    /\ wallet = [NewWallet EXCEPT !.status = "prompt",
                                  !.spentbook_nodes = [i \in 1..MaxMembers |-> i],
                                  !.spentbook_pks = Some(1..MaxMembers)]

SpecBroadcast == InitBroadcast /\ [][AnyBroadcastLogSpent]_vars

(***************************************************************************)
(* SpecConn: the listeners of one node and the connections they serve.     *)
(* A connection opened to an endpoint waits in incoming_connections until  *)
(* the listener of the endpoint takes it; the listener then reads the      *)
(* connection, item by item, until it ends.  The spentbook node has one    *)
(* endpoint and one listener ("p2p") for its peers and the wallets; the    *)
(* mint node has a second endpoint and listener ("wallet"), and its two    *)
(* listeners share the node behind a Mutex.  An item is a message (Peer, a *)
(* wallet Request), bytes that do not deserialize (Bad), a receive error   *)
(* (RecvErr) or the end of the connection (Close); at numbers the messages *)
(* in the order of their arrival at the node.                              *)
(***************************************************************************)
\* the connection has ended for the sender
Ended(c) ==
    /\ conn.stream[c] # <<>>
    /\ conn.stream[c][Len(conn.stream[c])].kind \in {"Close", "RecvErr"}

\* a remote end connects to an endpoint of the node
Connect(l) ==
    /\ node.status = "running"
    /\ l \in ListenersOf(node.kind)
    /\ conn.opened < MaxConns
    /\ LET c == conn.opened + 1
       IN conn' = [conn EXCEPT !.opened = c, !.ep[c] = l, !.queue[l] = Append(@, c)]
    /\ UNCHANGED <<node, spentbook_file, last, hist, cluster, net, wallet>>

\* the kinds of message an endpoint is sent
MessageKinds(kind, l) ==
    IF kind = "mint" THEN (IF l = "p2p" THEN {"Peer"} ELSE {"Request"})
    ELSE {"Peer", "Request"}

\* a message, or bytes that are none, arrives on a connection
Arrive(c, kind, actor) ==
    /\ node.status = "running"
    /\ c \in 1..conn.opened
    /\ ~Ended(c)
    /\ conn.arrivals < MaxArrivals
    /\ kind \in MessageKinds(node.kind, conn.ep[c]) \cup {"Bad"}
    /\ conn' = [conn EXCEPT
                  !.arrivals = @ + 1,
                  !.stream[c] = Append(@, [kind |-> kind, at |-> conn.arrivals + 1,
                                           actor |-> IF kind = "Peer" THEN actor ELSE 0])]
    /\ UNCHANGED <<node, spentbook_file, last, hist, cluster, net, wallet>>

\* a connection ends: closed by the remote end, or broken
Finish(c, kind) ==
    /\ node.status = "running"
    /\ c \in 1..conn.opened
    /\ ~Ended(c)
    /\ kind \in {"Close", "RecvErr"}
    /\ conn' = [conn EXCEPT !.stream[c] = Append(@, [kind |-> kind, at |-> 0, actor |-> 0])]
    /\ UNCHANGED <<node, spentbook_file, last, hist, cluster, net, wallet>>

\* the head of the outer loop of a listener: the next connection is taken.
\* A mint listener locks the node first and holds the guard for the whole
\* iteration; when try_recv finds no connection the iteration ends at once.
Accept(l) ==
    /\ node.status = "running"
    /\ l \in ListenersOf(node.kind)
    /\ conn.cur[l] = None
    /\ conn.queue[l] # <<>>
    /\ node.kind = "mint" => conn.lock = None
    /\ conn' = [conn EXCEPT !.cur[l] = Some(Head(conn.queue[l])),
                            !.queue[l] = Tail(@),
                            !.lock = IF node.kind = "mint" THEN Some(l) ELSE None]
    /\ UNCHANGED <<node, spentbook_file, last, hist, cluster, net, wallet>>

\* what the inner loop of a listener does with the next item of its connection
ReadItem(s, item, replyOk) ==
    CASE item.kind = "Close" -> Result(s, <<>>, "Ok", {})
      [] item.kind \in {"RecvErr", "Bad"} -> Result(s, <<>>, "Err", {})
      [] item.kind = "Peer" -> HandlePeerMsg(s, item.actor, AddrOf(item.actor), 0)
      [] OTHER ->
            IF s.kind = "mint"
            THEN LET r == HandleReissueRequest(s, 1)
                 IN Result(s, <<>>, IF r.res = "Ok" /\ ~replyOk THEN "Err" ELSE r.res, r.calls)
            ELSE Result(s, <<>>, IF replyOk THEN "Ok" ELSE "Err", {})

\* one turn of the inner loop of a listener: incoming_messages.next() has an
\* item.  An Err leaves the listener through ?, which ends run (and with it
\* the other listener of a mint node, by try_join!).
Read(l, replyOk) ==
    /\ node.status = "running"
    /\ l \in ListenersOf(node.kind)
    /\ conn.cur[l] # None
    /\ conn.stream[Unwrap(conn.cur[l])] # <<>>
    /\ LET c == Unwrap(conn.cur[l])
           item == Head(conn.stream[c])
           r == ReadItem(node, item, replyOk)
       IN /\ node' = [r.self EXCEPT !.status = StatusAfter(r.res)]
          /\ hist' = HistAfter(r.calls)
          /\ conn' = [conn EXCEPT
                        !.stream[c] = Tail(@),
                        !.read = item,
                        !.handled = IF item.kind = "Peer" THEN Append(@, item.at) ELSE @,
                        !.cur[l] = IF item.kind = "Close" THEN None ELSE @,
                        !.lock = IF item.kind = "Close" THEN None ELSE @]
    /\ UNCHANGED <<spentbook_file, last, cluster, net, wallet>>

AnyConnect == \E l \in Listeners : Connect(l)

AnyArrive ==
    \E c \in 1..MaxConns, kind \in {"Peer", "Request", "Bad"}, actor \in 1..MaxMembers :
        Arrive(c, kind, actor)

AnyFinish == \E c \in 1..MaxConns, kind \in {"Close", "RecvErr"} : Finish(c, kind)

AnyAccept == \E l \in Listeners : Accept(l)

AnyRead == \E l \in Listeners, replyOk \in BOOLEAN : Read(l, replyOk)

NextConn == AnyConnect \/ AnyArrive \/ AnyFinish \/ AnyAccept \/ AnyRead

\* a node of a group of MaxMembers, configured with quorum_size = MaxMembers
InitConn ==
    /\ Init
    /\ node.xor_name = 1
    /\ node.quorum_size = MaxMembers

SpecConn == InitConn /\ [][NextConn]_vars

\* the listeners take their steps; the remote ends need not take theirs
SpecConnFair == SpecConn /\ WF_vars(AnyAccept) /\ WF_vars(AnyRead)

(***************************************************************************)
(* Claims about the registry and the quorum gate (Spec).                   *)
(***************************************************************************)
RegistrySize(s) == Cardinality(DOMAIN s.peers)

\* C1: for every quorum_size >= 1, once the registry has reached and exceeded
\* quorum_size, initiate_dkg has been called exactly once, and it is called
\* only in the step that brings the registry to quorum_size.
C1_QuorumTriggersExactlyOnce ==
    /\ hist.dkg_inits <= 1
    /\ RegistrySize(node) > node.quorum_size => hist.dkg_inits = 1
    /\ "initiate_dkg" \in last.calls => RegistrySize(node) = node.quorum_size

\* the step handles a Peer announcement
PeerStep == last'.op = "peer" /\ vars' # vars

\* C3: a Peer announcement whose id the registry already holds (the node's
\* own id included, whatever the announced address) changes nothing: the
\* node is as before, nothing is sent, initiate_dkg is not called.
C3_IdempotentAdmission ==
    [][(PeerStep /\ last'.arg.actor \in DOMAIN node.peers)
        => /\ node' = node
           /\ hist' = hist
           /\ last'.out = <<>>
           /\ last'.calls = {}
           /\ last'.res = "Ok"]_vars

\* a known id, announced again with another address, was ignored
C3_Witness ==
    /\ last.op = "peer"
    /\ last.calls = {}
    /\ last.out = <<>>
    /\ last.arg.actor \in DOMAIN node.peers
    /\ last.arg.actor # node.xor_name
    /\ node.peers[last.arg.actor] # last.arg.addr

\* the Peer messages among the sends of a step
PeerSends(out) == SelectSeq(out, LAMBDA m : m.msg.type = "Peer")

\* C4: when a node with registry R admits a new peer P, it sends to P's
\* announced address exactly one Peer(id, address) message for every entry of
\* R, no Peer message to another destination or with other content, and its
\* registry afterwards is R plus P's entry.
C4_FullPropagation ==
    [][(PeerStep /\ last'.arg.actor \notin DOMAIN node.peers
                 /\ last'.arg.actor \in DOMAIN node'.peers)
        => LET R == node.peers
               P == last'.arg.actor
               a == last'.arg.addr
               sent == PeerSends(last'.out)
           IN /\ node'.peers = (P :> a) @@ R
              /\ DOMAIN node'.peers = DOMAIN R \cup {P}
              /\ \A i \in 1..Len(sent) :
                    /\ sent[i].dest = a
                    /\ sent[i].msg.actor \in DOMAIN R
                    /\ sent[i].msg.addr = R[sent[i].msg.actor]
              /\ \A id \in DOMAIN R :
                    Cardinality({i \in 1..Len(sent) : sent[i].msg.actor = id}) = 1]_vars

\* a peer was admitted by a node that knew another peer besides itself
C4_Witness ==
    /\ last.op = "peer"
    /\ "insert" \in last.calls
    /\ RegistrySize(node) >= 3
    /\ Len(PeerSends(last.out)) = 2
    /\ last.arg.actor \in DOMAIN node.peers

\* the Dkg messages among the sends of a step
DkgSends(out) == SelectSeq(out, LAMBDA m : m.msg.type = "Dkg")

\* C15: a node that starts DKG initializes the session with its own id, the
\* threshold quorum_size - 1 and the ids of its whole registry (quorum_size
\* of them, its own included), relays the message for each participant to the
\* address registered for it, and records the session only when every relay
\* was sent.
C15_DkgInitParameters ==
    [][(PeerStep /\ "initiate_dkg" \in last'.calls)
        => LET names == DOMAIN node'.peers
               targets == SortedSeq(names)
               sent == DkgSends(last'.out)
           IN /\ Cardinality(names) = node.quorum_size
              /\ node.xor_name \in names
              /\ Len(sent) <= Len(targets)
              /\ \A i \in 1..Len(sent) :
                    /\ sent[i].dest = node'.peers[targets[i]]
                    /\ sent[i].msg = DkgMsg("Initialization", node.xor_name, names)
              /\ IF last'.res = "Ok"
                 THEN /\ Len(sent) = Len(targets)
                      /\ node'.keygen =
                            Some(KeyGenInitialize(node.xor_name, node.quorum_size - 1,
                                                  names).keygen)
                 ELSE /\ Len(sent) < Len(targets)
                      /\ node'.keygen = None]_vars

\* a node reached quorum, relayed its Initialization to both participants
\* and recorded the session
C15_Witness ==
    /\ last.op = "peer"
    /\ "initiate_dkg" \in last.calls
    /\ last.res = "Ok"
    /\ Len(DkgSends(last.out)) = 2
    /\ IsSome(node.keygen)
    /\ Unwrap(node.keygen).threshold = node.quorum_size - 1

(***************************************************************************)
(* Claims about the DKG session and the key material (SpecDkg).            *)
(***************************************************************************)
\* C9: key material is installed at most once per process and, once
\* present, is never replaced or cleared.
C9_KeyMaterialWriteOnce ==
    /\ [](hist.installs <= 1)
    /\ [][IsSome(node.spentbook_node)
           => /\ IsSome(node'.spentbook_node)
              /\ Unwrap(node'.spentbook_node).key_manager
                    = Unwrap(node.spentbook_node).key_manager]_vars

\* a DKG message was handled by a node that already held key material
C9_Witness ==
    /\ last.op = "dkg"
    /\ last.res = "Ok"
    /\ last.calls = {}
    /\ IsSome(node.spentbook_node)
    /\ hist.installs = 1

\* the step hands a Dkg message to the node
DkgStep == last'.op = "dkg"

\* the node, the spent log and the history are as before, nothing was sent
\* and no error raised
DroppedSilently ==
    /\ node' = node
    /\ spentbook_file' = spentbook_file
    /\ hist' = hist
    /\ last'.out = <<>>
    /\ last'.res = "Ok"
    /\ last'.calls = {}

\* C16: a Dkg message received while the node has no session is dropped:
\* registry, session and key material are unchanged, nothing is sent, no
\* error is raised, and the node keeps no trace of it to process later.
C16_DkgBeforeSessionDropped ==
    [][(DkgStep /\ ~IsSome(node.keygen)) => DroppedSilently]_vars

\* a node waiting for its quorum was handed a Dkg message
C16_Witness ==
    /\ last.op = "dkg"
    /\ last.res = "Ok"
    /\ ~IsSome(node.keygen)
    /\ node.quorum_size > RegistrySize(node)
    /\ node.status = "running"

\* C17: a Dkg message received after the session is finalized is dropped
\* without error: handle_message is not called, nothing is relayed, key
\* material is neither derived nor installed again, the log is not replayed.
C17_DkgAfterFinalizedDropped ==
    [][(DkgStep /\ IsSome(node.keygen) /\ KeyGenIsFinalized(Unwrap(node.keygen)))
        => DroppedSilently]_vars

\* a spentbook node with a finalized session and key material was handed a
\* Dkg message and went on
C17_Witness ==
    /\ last.op = "dkg"
    /\ last.calls = {}
    /\ node.kind = "spentbook"
    /\ IsSome(node.keygen)
    /\ KeyGenIsFinalized(Unwrap(node.keygen))
    /\ IsSome(node.spentbook_node)
    /\ node.status = "running"

\* C18: when handle_message succeeded and the session is finalized, the same
\* step installed the key material of generate_keys; or, generate_keys
\* having returned nothing, the node runs on without key material.
C18_FinalizeInstalls ==
    (/\ last.op = "dkg"
     /\ "handle_message" \in last.calls
     /\ "handle_message_err" \notin last.calls
     /\ last.res # "Err"
     /\ IsSome(node.keygen)
     /\ KeyGenIsFinalized(Unwrap(node.keygen)))
    => \/ "install" \in last.calls /\ IsSome(node.spentbook_node)
       \/ /\ ~IsSome(node.spentbook_node)
          /\ last.res = "Ok"
          /\ node.status = "running"

\* C19: when handle_message fails for a Dkg message, nothing is relayed, no
\* key material is installed, and the node goes on handling messages.
C19_HandleMessageFailure ==
    "handle_message_err" \in last.calls
    => /\ last.out = <<>>
       /\ "install" \notin last.calls
       /\ node.status = "running"

(***************************************************************************)
(* Claims about the relay of a batch (SpecRelay).                          *)
(***************************************************************************)
\* the pairs of a batch whose target the registry holds, in order
KnownPairs(s, batch) == SelectSeq(batch, LAMBDA mt : mt.target \in DOMAIN s.peers)

\* C20: when a batch holds a pair whose target is not in the registry and
\* every send succeeds, the broadcast returns Ok, the node runs on, and the
\* other pairs were sent, each to the address registered for its target.
C20_RelayToUnknownTarget ==
    (/\ last.op = "broadcast"
     /\ last.arg.fail = 0
     /\ \E i \in 1..Len(last.arg.batch) : last.arg.batch[i].target \notin DOMAIN node.peers)
    => LET known == KnownPairs(node, last.arg.batch)
       IN /\ last.res = "Ok"
          /\ node.status = "running"
          /\ Len(last.out) = Len(known)
          /\ \A i \in 1..Len(known) :
                /\ last.out[i].dest = node.peers[known[i].target]
                /\ last.out[i].msg = known[i].message

(***************************************************************************)
(* Claims about the group (SpecNet).                                       *)
(***************************************************************************)
\* every member is up and no message is in flight: nothing more will happen
Quiescent ==
    /\ \A i \in Members : cluster[i].status = "running"
    /\ \A p \in Members \X Members : net[p] = <<>>

\* member i has a finalized session and holds key material
Finalized(i) ==
    /\ IsSome(cluster[i].keygen)
    /\ KeyGenIsFinalized(Unwrap(cluster[i].keygen))
    /\ IsSome(cluster[i].spentbook_node)

\* member i knows every member at its address and has started a session
\* with all of them and threshold quorum_size - 1
Converged(i) ==
    /\ cluster[i].status = "running"
    /\ DOMAIN cluster[i].peers = Members
    /\ \A j \in Members : cluster[i].peers[j] = j
    /\ IsSome(cluster[i].keygen)
    /\ Unwrap(cluster[i].keygen).our_id = i
    /\ Unwrap(cluster[i].keygen).threshold = Cardinality(Members) - 1
    /\ Unwrap(cluster[i].keygen).names = Members

C2_DkgLiveness == Quiescent => \A i \in Members : Finalized(i)

(***************************************************************************)
(* Claims about the request server and the spent log (SpecLedger).         *)
(***************************************************************************)
\* the reply of the last step, when one was sent
LastReply == Unwrap(last.reply)

\* the log holds a line that is the record of (key_image, tx)
LogHolds(file, key_image, tx) ==
    \E i \in 1..Len(Lines(file.data)) : Lines(file.data)[i] = <<EntryTok(key_image, tx)>>

\* C5: an application request (LogSpent, Reissue) handled while key material
\* is absent is answered with the not-ready condition, does not reach the
\* collaborator and does not crash the node.
C5_NotReadyGuard ==
    (last.op \in {"log_spent", "reissue"} /\ ~IsSome(node.spentbook_node))
    => /\ last.calls = {}
       /\ last.res # "Panic"
       /\ node.status # "panic"
       /\ last.arg.replyOk => /\ IsSome(last.reply)
                              /\ ~LastReply.ok
                              /\ LastReply.val = "NotReady"

\* C6: whenever a success reply for LogSpent(key_image, tx) has been sent, the
\* spent log holds the record of (key_image, tx).
C6_DurabilityBeforeAck ==
    (last.op = "log_spent" /\ IsSome(last.reply) /\ LastReply.ok)
    => LogHolds(spentbook_file, last.arg.key_image, last.arg.tx)

\* an append fails when the open, the serialization, the write of the
\* record or the write of the line terminator fails
AppendFailed(io) == ~io.open \/ ~io.ser \/ io.w1 # "full" \/ ~io.w2

\* C7: when the collaborator accepted a LogSpent request and any call of the
\* append failed, the reply is an error reply.
C7_AppendFailureFailsRequest ==
    (last.op = "log_spent" /\ "append" \in last.calls /\ AppendFailed(last.arg.io)
        /\ IsSome(last.reply))
    => ~LastReply.ok

\* what a restarted node holds after read_spentbook_log on the file
ReplayedSpent(s, file) ==
    ReplayLines(NewLedger(Unwrap(s.spentbook_node).key_manager), Lines(file.data)).node.spent

\* C8: the spent map a restarted node rebuilds from the log equals the spent
\* map of the live node.
C8_ReplayDeterminism ==
    (node.kind = "spentbook" /\ IsSome(node.spentbook_node))
    => ReplayedSpent(node, spentbook_file) = Unwrap(node.spentbook_node).spent

\* C10: a Discover request is answered (its reply send succeeding) with a
\* Discover reply that carries the node's registry, and whose verification
\* material is present iff the node holds key material.
C10_DiscoverAlwaysAnswered ==
    (last.op = "discover" /\ last.arg.replyOk)
    => /\ IsSome(last.reply)
       /\ LastReply.type = "Discover"
       /\ LastReply.peers = node.peers
       /\ IsSome(LastReply.pks) <=> IsSome(node.spentbook_node)

(***************************************************************************)
(* Claims about the wallet client (SpecWallet).                            *)
(***************************************************************************)
\* the wallet has run process_config or a command in this step
WalletActs == wallet' # wallet

IsDiscover(a) == a.kind = "reply" /\ Unwrap(a.reply).type = "Discover"

\* the answer whose Discover reply the step has stored for the section, if any
CompletedDiscover(section) ==
    LET l == wallet'.last
    IN IF ~WalletActs THEN None
       ELSE IF l.cmd = "join" /\ section = "spentbook" /\ IsDiscover(l.answers[1])
       THEN Some(l.answers[1])
       ELSE IF l.cmd = "config" /\ section = "spentbook" /\ IsDiscover(l.answers[1])
       THEN Some(l.answers[1])
       ELSE IF /\ l.cmd = "config" /\ section = "mint" /\ IsDiscover(l.answers[2])
               /\ (l.answers[1].kind = "unconfigured" \/ IsDiscover(l.answers[1]))
       THEN Some(l.answers[2])
       ELSE None

AddrsOfView(w, section) ==
    {View(w, section).nodes[x] : x \in DOMAIN View(w, section).nodes}

\* C11: the cached view of a section (registry snapshot and verification
\* material) changes only in a step that completes a Discover of that
\* section, and is then exactly the snapshot of the reply, nothing of the
\* former view being kept; what the authority group does in between leaves
\* the view as it is, and a broadcast contacts addresses of the cached
\* view only.
C11_ViewIsLastSnapshot ==
    [][\A section \in Sections :
          LET done == CompletedDiscover(section)
          IN /\ View(wallet', section) # View(wallet, section) => IsSome(done)
             /\ IsSome(done) =>
                   LET m == Unwrap(Unwrap(done).reply)
                   IN View(wallet', section) = [nodes |-> m.peers, pks |-> Some(m.pks)]
             /\ (WalletActs /\ wallet'.last.cmd = "broadcast"
                           /\ wallet'.last.section = section) =>
                   \A i \in 1..Len(wallet'.last.contacted) :
                      wallet'.last.contacted[i] \in AddrsOfView(wallet, section)]_vars

\* a member has joined the authority group since the last Discover: a
\* broadcast has gone to every member of the view and not to its address
C11_Witness ==
    /\ wallet.status = "prompt"
    /\ wallet.last.cmd = "broadcast"
    /\ wallet.last.res = "Ok"
    /\ wallet.last.contacted # <<>>
    /\ \E x \in DOMAIN node.peers :
          /\ x \notin DOMAIN View(wallet, node.kind).nodes
          /\ \A i \in 1..Len(wallet.last.contacted) :
                wallet.last.contacted[i] # node.peers[x]

IsShare(section, a) ==
    /\ a.kind = "reply"
    /\ Unwrap(a.reply).type = ShareType(section)
    /\ Unwrap(a.reply).ok

\* C13: a broadcast goes through the addresses of the cached snapshot in
\* registry order.  When every member answers with a share, the result is
\* the shares of all members in that order.  Otherwise the first member
\* that does not is the last one contacted and no share is returned; when
\* that member's request met a transport failure, a reply of another kind
\* or an error reply, the broadcast returns that error.
C13_BroadcastAllOrNothing ==
    [][(WalletActs /\ wallet'.last.cmd = "broadcast") =>
          LET l == wallet'.last
              addrs == SnapshotAddrs(View(wallet, l.section).nodes)
              n == Len(addrs)
          IN IF \A i \in 1..n : IsShare(l.section, l.answers[i])
             THEN /\ l.res = "Ok"
                  /\ l.contacted = addrs
                  /\ l.shares = [i \in 1..n |-> Unwrap(l.answers[i].reply).val]
             ELSE \E k \in 1..n :
                     LET a == l.answers[k]
                     IN /\ ~IsShare(l.section, a)
                        /\ \A j \in 1..(k - 1) : IsShare(l.section, l.answers[j])
                        /\ l.res # "Ok"
                        /\ l.shares = <<>>
                        /\ l.contacted = SubSeq(addrs, 1, k)
                        /\ a.kind = "transport" =>
                              l.res = "Err" /\ l.err = Error("transport", "none")
                        /\ (a.kind = "reply" /\ Unwrap(a.reply).type # ShareType(l.section)) =>
                              l.res = "Err" /\ l.err = Error("unexpected reply", "none")
                        /\ (a.kind = "reply" /\ Unwrap(a.reply).type = ShareType(l.section)) =>
                              l.res = "Err" /\ l.err = Error("error reply", Unwrap(a.reply).val)]_vars

\* a broadcast to a snapshot of several members has failed at a member
\* that is not the last one
C13_Witness ==
    /\ wallet.last.cmd = "broadcast"
    /\ wallet.last.res = "Err"
    /\ wallet.last.shares = <<>>
    /\ wallet.last.contacted # <<>>
    /\ Len(wallet.last.contacted) < Cardinality(DOMAIN View(wallet, wallet.last.section).nodes)

\* the commands that fail: an unknown command, a request that meets a
\* transport failure, a connection closed before the reply, a reply of
\* another kind or an error reply, input that does not parse
FailedCommand(l) ==
    /\ l.cmd \in {"join", "broadcast", "unknown", "malformed"}
    /\ l.res # "Ok"

\* C14: a command of the interactive loop that fails is reported and the
\* loop goes on to read the next command: after it the client is at the
\* prompt, not terminated.
C14_FailureKeepsSession ==
    FailedCommand(wallet.last) => wallet.status = "prompt"

(***************************************************************************)
(* Claims about the listeners and their connections (SpecConn).            *)
(***************************************************************************)
\* C21: bytes that do not deserialize cost the node that one message only:
\* after reading them the node still listens.
C21_MalformedIsLocal ==
    conn.read.kind = "Bad" => node.status = "running"

\* C22: a receive error on a connection ends the reading of that
\* connection, not the listener: after it the node still listens.
C22_RecvErrorKeepsListener ==
    conn.read.kind = "RecvErr" => node.status = "running"

\* the listener waits for the next item of the connection it reads
Waiting(l) ==
    /\ conn.cur[l] # None
    /\ conn.stream[Unwrap(conn.cur[l])] = <<>>

\* C24: a listener of the mint node does not hold the lock of the node
\* while it waits for a further message to arrive on a connection.
C24_LockNotHeldWhileWaiting ==
    \A l \in Listeners : conn.lock = Some(l) => ~Waiting(l)

\* the connection the wallet listener reads, or takes next, has a request
\* at its head
WalletRequestArrived ==
    \E c \in 1..conn.opened :
       /\ conn.ep[c] = "wallet"
       /\ \/ conn.cur["wallet"] = Some(c)
          \/ conn.cur["wallet"] = None /\ conn.queue["wallet"] # <<>>
                                       /\ Head(conn.queue["wallet"]) = c
       /\ conn.stream[c] # <<>>
       /\ Head(conn.stream[c]).kind = "Request"

\* C25: the listeners of a mint node do not starve each other: a wallet
\* request that has arrived is handled in the end (unless the node has
\* ended), whatever the connections of the peers do.
C25_WalletRequestServed ==
    WalletRequestArrived ~> (~WalletRequestArrived \/ node.status # "running")

\* C26: the messages of the peers are handled in the order of their
\* arrival at the node, on whatever connections they arrive.
C26_ArrivalOrder ==
    \A i \in 1..Len(conn.handled), j \in 1..Len(conn.handled) :
       i < j => conn.handled[i] < conn.handled[j]

(***************************************************************************)
(* Claims about the requests the collaborator rejects (SpecServe).         *)
(***************************************************************************)
RequestStep == last'.op \in {"log_spent", "reissue"} /\ vars' # vars

\* the failure of the collaborator for the request of the step, "Ok" if it accepts
Verdict ==
    IF last'.op = "log_spent"
    THEN LogSpent(Unwrap(node.spentbook_node), last'.arg.key_image, last'.arg.tx).res
    ELSE Reissue(Unwrap(node.spentbook_node), last'.arg.rr)

C27_RegistryOnlyGrows ==
    [][/\ \A x \in DOMAIN node.peers :
             x \in DOMAIN node'.peers /\ node'.peers[x] = node.peers[x]
       /\ (/\ PeerStep
           /\ last'.res = "Ok"
           /\ last'.arg.actor \notin DOMAIN node.peers
           /\ RegistrySize(node) >= node.quorum_size) =>
             /\ last'.arg.actor \in DOMAIN node'.peers
             /\ node'.peers[last'.arg.actor] = last'.arg.addr
             /\ hist'.dkg_inits = hist.dkg_inits
             /\ node'.keygen = node.keygen]_vars

\* an id has been inserted into a registry that had reached quorum_size
\* when the session was started
C27_Witness ==
    /\ last.op = "peer"
    /\ last.res = "Ok"
    /\ "insert" \in last.calls
    /\ node.quorum_size >= 2
    /\ RegistrySize(node) > node.quorum_size
    /\ hist.dkg_inits = 1
    /\ IsSome(node.keygen)

(***************************************************************************)
(* Claims about the start of a node (SpecStart).                           *)
(***************************************************************************)
\* C28: a node handles no inbound message before run has made its
\* announcements; run sends, element by element and in the order of the
\* --peers list, one Peer message with the node's own id and its own public
\* address to each element, stopping at the first send that fails; the node
\* that listens afterwards has sent to every element of the list.
C28_AnnouncesInListOrder ==
    [][node.status = "down" /\ node' # node =>
         LET peers == node.config_peers
             out == last'.out
         IN /\ last'.op = "run"
            /\ Len(out) <= Len(peers)
            /\ \A i \in 1..Len(out) :
                  /\ out[i].dest = peers[i]
                  /\ out[i].msg = PeerMsg(node'.xor_name, OwnPublicAddr)
            /\ node'.status = "running" => Len(out) = Len(peers)
            /\ node'.status \in {"running", "error"}]_vars

\* a node listens after announcing itself to a list that is not in
\* ascending order
C28_Witness ==
    /\ last.op = "run"
    /\ node.status = "running"
    /\ Len(last.out) = 2
    /\ last.out[1].dest > last.out[2].dest

(***************************************************************************)
(* Claims about the address a send connects to (SpecSend).                 *)
(***************************************************************************)
\* the i-th message handle_peer_msg hands to the send function for an
\* announcement of an id the registry s lacks: the peer list in the order
\* of the ids, then the Initialization of the DKG session
RequestedMsg(s, actor, i) ==
    LET keys == SortedSeq(DOMAIN s.peers)
    IN IF i <= Len(keys)
       THEN PeerMsg(keys[i], s.peers[keys[i]])
       ELSE DkgMsg("Initialization", s.xor_name, DOMAIN s.peers \cup {actor})

\* every send of the step carries the message it was called with
MessageKept ==
    \A i \in 1..Len(last'.out) :
        last'.out[i].msg = RequestedMsg(node, last'.arg.actor, i)

\* C29 as stated: a send connects to the node's local address if and only
\* if its destination is the node's own public address, and to the
\* destination otherwise, with the message it was called with.
C29_LocalIffOwnPublic ==
    [][PeerStep =>
         /\ \A i \in 1..Len(last'.out) :
               LET snd == last'.out[i]
               IN /\ snd.addr = node.local_addr <=> snd.dest = node.public_addr
                  /\ snd.dest # node.public_addr => snd.addr = snd.dest
         /\ MessageKept]_vars

\* C29, amended: a send whose destination is the node's own public address
\* connects to the node's local address, any other send connects to its
\* destination (which may itself be the local address), and the message
\* is the one the send was called with in both cases.
C29_OwnPublicGoesLocal ==
    [][PeerStep =>
         /\ \A i \in 1..Len(last'.out) :
               LET snd == last'.out[i]
               IN snd.addr = IF snd.dest = node.public_addr
                             THEN node.local_addr ELSE snd.dest
         /\ MessageKept]_vars

\* a step has sent both to the node's own public address, connecting to
\* the local address, and to another address, connecting to that address
C29_Witness ==
    /\ last.op = "peer"
    /\ \E i, j \in 1..Len(last.out) :
          /\ last.out[i].dest = node.public_addr
          /\ last.out[i].addr = node.local_addr
          /\ last.out[j].dest \notin {node.public_addr, node.local_addr}
          /\ last.out[j].addr = last.out[j].dest

(***************************************************************************)
(* Claims about the replay of the spent log (SpecReplay).                  *)
(***************************************************************************)
\* the entries of a log all of whose lines parse, in file order
EntriesOf(file) ==
    LET lines == Lines(file.data)
    IN [i \in 1..Len(lines) |-> lines[i][1]]

\* what the collaborator holds once the entries have been given to it one
\* after another: for a key image, the transaction of its first entry that
\* the collaborator accepts
SpentOfLog(file) ==
    LET es == EntriesOf(file)
        valid(k) == {i \in 1..Len(es) :
                       es[i].key_image = k /\ es[i].transaction # 0}
        first(k) == CHOOSE i \in valid(k) : \A j \in valid(k) : i <= j
    IN [k \in {x \in KeyImages : valid(x) # {}} |-> es[first(k)].transaction]

HasMalformedLine(file) ==
    \E i \in 1..Len(Lines(file.data)) : ~LineParses(Lines(file.data)[i])

\* C31: a replay over a log with a line that does not parse skips the
\* line and finishes: the node goes on to serve requests.
C31_MalformedLineSkipped ==
    (/\ last.op = "dkg"
     /\ "replay" \in last.calls
     /\ HasMalformedLine(spentbook_file)) => node.status = "running"

(***************************************************************************)
(* Claims about the pairing of requests and replies (SpecLedger).          *)
(***************************************************************************)
\* the kind of reply that answers a request
ReplyKindOf(op) ==
    CASE op = "discover" -> "Discover"
      [] op = "log_spent" -> "LogSpent"
      [] op = "reissue" -> "Reissue"

\* C32: a request of a wallet that the node's wire format has (Discover and
\* LogSpent at a spentbook node, Reissue at a mint node) is answered, the
\* send on its connection working, with one reply of the matching kind
\* before the next message is handled; a peer message is answered with none.
C32_RequestReplyPairing ==
    /\ (/\ last.op \in {"discover", "log_spent", "reissue"}
        /\ ~(last.op = "discover" /\ node.kind = "mint")
        /\ last.arg.replyOk) =>
          /\ IsSome(last.reply)
          /\ LastReply.type = ReplyKindOf(last.op)
    /\ last.op \in {"peer", "dkg"} => last.reply = None

(***************************************************************************)
(* Claims about the targets of the DKG relays (SpecDkg).                   *)
(***************************************************************************)
\* C33: the targets of every batch a node relays are in its registry: the
\* participants of its session are, and so are the targets of the batch
\* the session hands back for any message it accepts; and the batch of a
\* session just initialized was relayed without a miss.
C33_RelayTargetsKnown ==
    /\ \A kg \in node.keygen :
          /\ kg.names \subseteq DOMAIN node.peers
          /\ \A m \in DkgMsgs(node) :
                KeyGenAccepts(kg, m) =>
                    FirstMiss(node, KeyGenHandleMessage(kg, m).msgs) = 0
    /\ "initiate_dkg" \in last.calls =>
          /\ last.res # "Panic"
          /\ last.res = "Ok" =>
                /\ IsSome(node.keygen)
                /\ Len(last.out) >= Cardinality(Unwrap(node.keygen).names)

\* a mint node has relayed the batch its session handed back for a message
C33_Witness ==
    /\ node.kind = "mint"
    /\ last.op = "dkg"
    /\ last.res = "Ok"
    /\ last.out # <<>>

(***************************************************************************)
(* Claims about a group larger than its quorum (SpecOver).                 *)
(***************************************************************************)
\* the members that have started a DKG session
InSession == {i \in Members : cluster[i].status # "down" /\ IsSome(cluster[i].keygen)}

\* C34: any two nodes of a group that have started DKG have started it
\* with the same participants.
C34_SameParticipants ==
    \A i \in InSession, j \in InSession :
        Unwrap(cluster[i].keygen).names = Unwrap(cluster[j].keygen).names

(***************************************************************************)
(* Claims about the states of a node (SpecDkg).                            *)
(***************************************************************************)
\* Idle -> Running -> Finalized: the rank of the state of the DKG session
SessionRank(s) ==
    IF ~IsSome(s.keygen) THEN 0
    ELSE IF KeyGenIsFinalized(Unwrap(s.keygen)) THEN 2 ELSE 1

\* C35: in every state the registry holds the node's own id with its own
\* public address, a session exists only with a registry of at least
\* quorum_size entries, key material is present only with a finalized
\* session; and in every step a session that exists stays, with the
\* participants it has, and does not go back.
C35_NodeInvariants ==
    /\ [](/\ node.xor_name \in DOMAIN node.peers
          /\ node.peers[node.xor_name] = node.public_addr
          /\ IsSome(node.keygen) => Cardinality(DOMAIN node.peers) >= node.quorum_size
          /\ IsSome(node.spentbook_node) => SessionRank(node) = 2)
    /\ [][/\ SessionRank(node') >= SessionRank(node)
          /\ IsSome(node.keygen) =>
                /\ IsSome(node'.keygen)
                /\ Unwrap(node'.keygen).names = Unwrap(node.keygen).names
                /\ Unwrap(node.keygen).inits \subseteq Unwrap(node'.keygen).inits
                /\ Unwrap(node.keygen).props \subseteq Unwrap(node'.keygen).props]_vars

\* a node with key material whose registry has grown beyond quorum_size
C35_Witness ==
    /\ IsSome(node.spentbook_node)
    /\ Cardinality(DOMAIN node.peers) > node.quorum_size
    /\ node.status = "running"

(***************************************************************************)
(* Claims about an admission that fails (Spec).                            *)
(***************************************************************************)
\* C36: when a send of the peer list to a newly announced peer fails, the
\* newcomer is not inserted and the quorum gate is not evaluated: registry
\* and session are those of before the announcement, and no DKG is
\* initiated.
C36_FailedAdmissionChangesNothing ==
    [][(/\ PeerStep
        /\ last'.res = "Err"
        /\ Len(last'.out) < Cardinality(DOMAIN node.peers)) =>
          /\ node'.peers = node.peers
          /\ node'.keygen = node.keygen
          /\ hist' = hist
          /\ \A i \in 1..Len(last'.out) : last'.out[i].msg.type = "Peer"]_vars

\* the peer list was sent in part to a newcomer when a send failed
C36_Witness ==
    /\ last.op = "peer"
    /\ last.res = "Err"
    /\ last.arg.actor \notin DOMAIN node.peers
    /\ Len(last.out) >= 1
    /\ Len(last.out) < Cardinality(DOMAIN node.peers)

(***************************************************************************)
(* Claims about the wallet's reissue (SpecReissue).                        *)
(***************************************************************************)
ReissueStep == wallet'.last.cmd = "reissue" /\ wallet' # wallet

\* every member of the snapshot answered the broadcast with a share
AllShares(w, ans) ==
    /\ Len(ans) = Cardinality(DOMAIN w.spentbook_nodes)
    /\ \A m \in 1..Len(ans) :
          /\ ans[m].kind = "reply"
          /\ Unwrap(ans[m].reply).type = "LogSpent"
          /\ Unwrap(ans[m].reply).ok

\* C37: a reissue marks an input spent only when every member of the
\* cached snapshot answered the broadcast for it with a share; from the
\* first input whose broadcast fails on, the inputs stay unspent and the
\* wallet gains no DBC.
C37_SpentOnlyAfterBroadcast ==
    [][ReissueStep =>
         LET l == wallet'.last
             failed == {i \in 1..Len(l.inputs) : ~AllShares(wallet, l.answers[i])}
         IN /\ \A d \in DOMAIN wallet.dbcs :
                  (wallet'.dbcs[d].spent /\ ~wallet.dbcs[d].spent) =>
                      \E i \in 1..Len(l.inputs) :
                          l.inputs[i] = d /\ AllShares(wallet, l.answers[i])
            /\ failed # {} =>
                  /\ \A i \in failed : \A j \in i..Len(l.inputs) :
                        ~wallet'.dbcs[l.inputs[j]].spent
                  /\ DOMAIN wallet'.dbcs = DOMAIN wallet.dbcs
                  /\ l.res # "Ok"]_vars

\* the broadcast for the first of two inputs succeeded, that for the
\* second failed: the first is spent, the second is not
C37_Witness ==
    /\ wallet.last.cmd = "reissue"
    /\ Len(wallet.last.inputs) = 2
    /\ wallet.last.done = 1
    /\ wallet.dbcs[wallet.last.inputs[1]].spent
    /\ ~wallet.dbcs[wallet.last.inputs[2]].spent

\* C38: a reissue of an amount up to the balance whose broadcasts all
\* succeed returns normally, the recipient's DBC added to the wallet.
C38_ReissueTerminates ==
    (/\ wallet.last.cmd = "reissue"
     /\ wallet.last.done = Len(wallet.last.inputs)) =>
        /\ wallet.last.res = "Ok"
        /\ wallet.status = "prompt"

(***************************************************************************)
(* Claims about a broadcast that aborts (SpecBroadcast).                   *)
(***************************************************************************)
\* C39: when a broadcast aborts at the k-th member, every member before it
\* has processed the request, one that accepted it has the spend in its
\* ledger and in its log, and no member after it has received anything.
C39_AbortLeavesPrefix ==
    [][(last'.op = "broadcast" /\ vars' # vars /\ wallet'.last.res # "Ok") =>
         LET k == Len(wallet'.last.contacted)
             key_image == last'.arg.key_image
             tx == last'.arg.tx
         IN \A i \in Members :
               /\ i > k => /\ cluster'[i] = cluster[i]
                           /\ spentbook_file'[i] = spentbook_file[i]
               /\ (/\ i < k
                   /\ Unwrap(wallet'.last.answers[i].reply).ok) =>
                     /\ key_image \in DOMAIN Unwrap(cluster'[i].spentbook_node).spent
                     /\ Unwrap(cluster'[i].spentbook_node).spent[key_image] = tx
                     /\ LogHolds(spentbook_file'[i], key_image, tx)]_vars

====
